---------------------------- MODULE Spec2Model ----------------------------
(***************************************************************************)
(* yattmcp: the tool operations of src/yattmcp/server.py over the          *)
(* normalizers of src/yattmcp/normalizers.py and the provider calls of     *)
(* src/yattmcp/client.py.                                                  *)
(*                                                                         *)
(* Representation of Python values:                                        *)
(*   str    a tuple of chunks (TLA+ strings); "" is <<>>.  Free text and   *)
(*          priority labels are chunked per character, a date string is    *)
(*          chunked into its date, time and offset parts, an id is one     *)
(*          chunk.  len(s) is the sum of the chunk lengths.                *)
(*   None   where a str may be None: the one-chunk tuple None, whose chunk *)
(*          no string of the model contains.  An omitted optional argument *)
(*          is a key that is missing from args.                            *)
(*   dict   a function whose domain is the set of keys present.            *)
(*   list   a sequence.                                                    *)
(*   a call that may raise returns Ret(v) or Raise(e).                     *)
(***************************************************************************)
EXTENDS Integers, Sequences, FiniteSets, TLC

VARIABLES
    env,          \* os.environ as seen by lifespan (inbox variable only)
    inbox_id,     \* lifespan's "inbox_project_id", handed to the tools
    op,           \* the tool operation in flight, "" when none
    args,         \* its arguments: the keys present are the ones supplied
    pc,           \* where the invocation is suspended
    calls,        \* the provider calls issued by this invocation, in order
    resps,        \* the provider's answers, in order
    project_ids,  \* search_tasks: local project_ids
    all_tasks,    \* search_tasks: local all_tasks
    result,       \* what the invocation returned (or raised)
    store,        \* the provider's copy of task t1 (concurrent invocations)
    flights,      \* the invocations in flight on task t1, by number
    _client,      \* TickTickClient._client: <<>> is None, <<i>> is sessions[i]
    sessions      \* the httpx.AsyncClient objects created so far

vars == <<env, inbox_id, op, args, pc, calls, resps, project_ids, all_tasks, result,
          store, flights, _client, sessions>>

---------------------------------------------------------------------------
(* Python values *)

None == <<"None">>

Ret(v) == [exc |-> <<>>, val |-> v]

Raise(e) == [exc |-> <<e>>]

Raised(r) == r.exc # <<>>

\* d.get(k, default)
Get(d, k, default) == IF k \in DOMAIN d THEN d[k] ELSE default

\* d[k] = v
Put(d, k, v) == [x \in DOMAIN d \cup {k} |-> IF x = k THEN v ELSE d[x]]

\* bool(s) for s: str | None
Truthy(s) == s # None /\ s # <<>>

\* an optional argument: None when the caller omitted it
Arg(a, k) == Get(a, k, None)

RECURSIVE StrLen(_)
StrLen(s) == IF s = <<>> THEN 0 ELSE Len(Head(s)) + StrLen(Tail(s))

Range(s) == {s[i] : i \in DOMAIN s}

RECURSIVE Concat(_)
Concat(ss) == IF ss = <<>> THEN <<>> ELSE Head(ss) \o Concat(Tail(ss))

---------------------------------------------------------------------------
(* str.lower, str.strip, the substring test *)

UpperToLower ==
    [A |-> "a", B |-> "b", C |-> "c", D |-> "d", E |-> "e", F |-> "f",
     G |-> "g", H |-> "h", I |-> "i", J |-> "j", K |-> "k", L |-> "l",
     M |-> "m", N |-> "n", O |-> "o", P |-> "p", Q |-> "q", R |-> "r",
     S |-> "s", T |-> "t", U |-> "u", V |-> "v", W |-> "w", X |-> "x",
     Y |-> "y", Z |-> "z"]

LowerChar(c) == IF c \in DOMAIN UpperToLower THEN UpperToLower[c] ELSE c

Lower(s) == [i \in DOMAIN s |-> LowerChar(s[i])]

Whitespace == {" ", "\t", "\n"}

RECURSIVE LStrip(_)
LStrip(s) == IF s # <<>> /\ Head(s) \in Whitespace THEN LStrip(Tail(s)) ELSE s

RECURSIVE RStrip(_)
RStrip(s) ==
    IF s # <<>> /\ s[Len(s)] \in Whitespace
    THEN RStrip(SubSeq(s, 1, Len(s) - 1))
    ELSE s

Strip(s) == RStrip(LStrip(s))

\* q in t
Contains(q, t) ==
    \E i \in 1..(Len(t) - Len(q) + 1) : SubSeq(t, i, i + Len(q) - 1) = q

---------------------------------------------------------------------------
(* normalizers.py: priority *)

L_none == <<"n", "o", "n", "e">>

L_low == <<"l", "o", "w">>

L_medium == <<"m", "e", "d", "i", "u", "m">>

L_high == <<"h", "i", "g", "h">>

PRIORITY_TO_API == (L_none :> 0) @@ (L_low :> 1) @@ (L_medium :> 3) @@ (L_high :> 5)

PRIORITY_FROM_API ==
    [v \in {PRIORITY_TO_API[k] : k \in DOMAIN PRIORITY_TO_API} |->
        CHOOSE k \in DOMAIN PRIORITY_TO_API : PRIORITY_TO_API[k] = v]

\* faulty variant: an unknown label is encoded as "none"
priority_to_api_defaulting(priority) ==
    Ret(Get(PRIORITY_TO_API, Strip(Lower(priority)), 0))

priority_to_api(priority) ==
    LET key == Strip(Lower(priority))
    IN  IF key \notin DOMAIN PRIORITY_TO_API
        THEN Raise("ValueError")
        ELSE Ret(PRIORITY_TO_API[key])

\* faulty variant: an unmapped code is decoded as "low"
priority_from_api_low(priority) == Get(PRIORITY_FROM_API, priority, L_low)

priority_from_api(priority) == Get(PRIORITY_FROM_API, priority, L_none)

---------------------------------------------------------------------------
(* datetime: the ISO 8601 date, time and offset parts fromisoformat accepts, *)
(* with the day (of March 2025), the minute of the day, the milliseconds    *)
(* into that minute and the offset in minutes each stands for.  A datetime  *)
(* is [day, min, ms, tz], tz = <<>> when naive and <<offset>> when aware.   *)

\* extended dates, the basic form of the 15th, and week 11 (its Monday, the 10th)
DATE_TOKENS ==
    ("2025-03-10" :> 10) @@ ("2025-03-14" :> 14) @@ ("2025-03-15" :> 15)
        @@ ("2025-03-16" :> 16) @@ ("20250315" :> 15) @@ ("2025W11" :> 10)

TIME_TOKENS ==
    ("T00:00:00" :> 0) @@ ("T02:00:00" :> 120) @@ ("T14:00" :> 840)
        @@ ("T14:00:00" :> 840) @@ ("T14" :> 840)
        @@ ("T14:00:00.500" :> 840) @@ ("T14:00:00.500000" :> 840)

\* the milliseconds into the minute of each time token
TIME_MILLIS ==
    [t \in DOMAIN TIME_TOKENS |->
        IF t \in {"T14:00:00.500", "T14:00:00.500000"} THEN 500 ELSE 0]

OFFSET_TOKENS ==
    ("+0000" :> 0) @@ ("+00:00" :> 0) @@ ("+0500" :> 300) @@ ("+05:00" :> 300)

\* datetime.fromisoformat(date_str)
fromisoformat(date_str) ==
    IF /\ Len(date_str) \in 1..3
       /\ date_str[1] \in DOMAIN DATE_TOKENS
       /\ Len(date_str) >= 2 => date_str[2] \in DOMAIN TIME_TOKENS
       /\ Len(date_str) = 3 => date_str[3] \in DOMAIN OFFSET_TOKENS
    THEN Ret([day |-> DATE_TOKENS[date_str[1]],
              min |-> IF Len(date_str) >= 2 THEN TIME_TOKENS[date_str[2]] ELSE 0,
              ms  |-> IF Len(date_str) >= 2 THEN TIME_MILLIS[date_str[2]] ELSE 0,
              tz  |-> IF Len(date_str) = 3
                      THEN <<OFFSET_TOKENS[date_str[3]]>>
                      ELSE <<>>])
    ELSE Raise("ValueError")

\* dt.replace(tzinfo=timezone.utc)
replace_tzinfo_utc(dt) == [dt EXCEPT !.tz = <<0>>]

\* %Y-%m-%d
FormatDate(day) ==
    CHOOSE t \in DOMAIN DATE_TOKENS : DATE_TOKENS[t] = day /\ Len(t) = 10

\* T%H:%M:%S
FormatTime(min) ==
    CHOOSE t \in DOMAIN TIME_TOKENS : TIME_TOKENS[t] = min /\ Len(t) = 9

\* %z: the offset as +HHMM, empty for a naive datetime
FormatOffsetBasic(tz) ==
    IF tz = <<>> THEN <<>>
    ELSE <<CHOOSE t \in DOMAIN OFFSET_TOKENS :
             OFFSET_TOKENS[t] = tz[1] /\ Len(t) = 5>>

\* the offset as +HH:MM, empty for a naive datetime
FormatOffsetExtended(tz) ==
    IF tz = <<>> THEN <<>>
    ELSE <<CHOOSE t \in DOMAIN OFFSET_TOKENS :
             OFFSET_TOKENS[t] = tz[1] /\ Len(t) = 6>>

\* dt.strftime("%Y-%m-%dT%H:%M:%S%z")
strftime(dt) == <<FormatDate(dt.day), FormatTime(dt.min)>> \o FormatOffsetBasic(dt.tz)

\* isoformat's time: THH:MM:SS, with six fraction digits when there is a fraction
FormatIsoTime(min, ms) ==
    CHOOSE t \in DOMAIN TIME_TOKENS :
        /\ TIME_TOKENS[t] = min
        /\ TIME_MILLIS[t] = ms
        /\ Len(t) = IF ms = 0 THEN 9 ELSE 16

\* dt.isoformat()
isoformat(dt) ==
    <<FormatDate(dt.day), FormatIsoTime(dt.min, dt.ms)>> \o FormatOffsetExtended(dt.tz)

\* the instant of an aware datetime, in milliseconds
Instant(dt) == (dt.day * 1440 + dt.min - dt.tz[1]) * 60000 + dt.ms

---------------------------------------------------------------------------
(* normalizers.py: dates *)

\* faulty variant: a string that does not parse is passed on as it is
date_to_api_lenient(date_str) ==
    LET parsed == fromisoformat(date_str)
        is_all_day == StrLen(date_str) = 10
        dt == IF parsed.val.tz = <<>>
              THEN replace_tzinfo_utc(parsed.val)
              ELSE parsed.val
    IN  IF Raised(parsed) THEN Ret(<<date_str, FALSE>>)
        ELSE Ret(<<strftime(dt), is_all_day>>)

date_to_api(date_str) ==
    LET parsed == fromisoformat(date_str)
        is_all_day == StrLen(date_str) = 10
        dt == IF parsed.val.tz = <<>>
              THEN replace_tzinfo_utc(parsed.val)
              ELSE parsed.val
    IN  IF Raised(parsed) THEN parsed
        ELSE Ret(<<strftime(dt), is_all_day>>)

\* faulty variant: the offset is replaced by UTC
date_from_api_utc(date_str) ==
    IF ~Truthy(date_str) THEN Ret(None)
    ELSE LET parsed == fromisoformat(date_str)
         IN  IF Raised(parsed) THEN parsed
             ELSE Ret(isoformat(replace_tzinfo_utc(parsed.val)))

date_from_api(date_str) ==
    IF ~Truthy(date_str) THEN Ret(None)
    ELSE LET parsed == fromisoformat(date_str)
         IN  IF Raised(parsed) THEN parsed ELSE Ret(isoformat(parsed.val))

---------------------------------------------------------------------------
(* normalizers.py: subtasks, tasks, projects *)

\* faulty variant: the subtask's id is passed on to the provider
subtask_to_api_keeps_id(subtask) ==
    IF "title" \notin DOMAIN subtask THEN Raise("KeyError")
    ELSE LET item == [title  |-> subtask["title"],
                      status |-> IF Get(subtask, "isCompleted", FALSE) THEN 1 ELSE 0]
         IN  Ret(IF "id" \in DOMAIN subtask THEN Put(item, "id", subtask["id"])
                 ELSE item)

subtask_to_api(subtask) ==
    IF "title" \notin DOMAIN subtask THEN Raise("KeyError")
    ELSE Ret([title  |-> subtask["title"],
              status |-> IF Get(subtask, "isCompleted", FALSE) THEN 1 ELSE 0])

\* faulty variant: only status 1 counts as completed
subtask_from_api_only_one(item) ==
    [id          |-> Get(item, "id", None),
     title       |-> Get(item, "title", <<>>),
     isCompleted |-> Get(item, "status", 0) = 1]

subtask_from_api(item) ==
    [id          |-> Get(item, "id", None),
     title       |-> Get(item, "title", <<>>),
     isCompleted |-> Get(item, "status", 0) # 0]

\* [subtask_to_api(s) for s in subtasks]
subtasks_to_api(subtasks) ==
    IF \E i \in DOMAIN subtasks : Raised(subtask_to_api(subtasks[i]))
    THEN Raise("KeyError")
    ELSE Ret([i \in DOMAIN subtasks |-> subtask_to_api(subtasks[i]).val])

normalize_task(task) ==
    LET due   == date_from_api(Get(task, "dueDate", None))
        start == date_from_api(Get(task, "startDate", None))
        items == Get(task, "items", None)
    IN  IF "id" \notin DOMAIN task THEN Raise("KeyError")
        ELSE IF Raised(due) THEN due
        ELSE IF Raised(start) THEN start
        ELSE Ret([id          |-> task["id"],
                  projectId   |-> Get(task, "projectId", <<>>),
                  title       |-> Get(task, "title", <<>>),
                  content     |-> Get(task, "content", <<>>),
                  priority    |-> priority_from_api(Get(task, "priority", 0)),
                  isCompleted |-> Get(task, "status", 0) # 0,
                  isAllDay    |-> Get(task, "isAllDay", FALSE),
                  dueDate     |-> due.val,
                  startDate   |-> start.val,
                  subtasks    |-> IF Truthy(items)
                                  THEN [i \in DOMAIN items |-> subtask_from_api(items[i])]
                                  ELSE <<>>])

normalize_project(project) ==
    IF "id" \notin DOMAIN project THEN Raise("KeyError")
    ELSE Ret([id       |-> project["id"],
              name     |-> Get(project, "name", <<>>),
              color    |-> Get(project, "color", None),
              viewMode |-> Get(project, "viewMode", None),
              isClosed |-> Get(project, "closed", FALSE)])

\* [normalize_task(t) for t in tasks]
normalize_tasks(tasks) ==
    IF \E i \in DOMAIN tasks : Raised(normalize_task(tasks[i]))
    THEN LET first == CHOOSE i \in DOMAIN tasks :
                        /\ Raised(normalize_task(tasks[i]))
                        /\ \A j \in 1..(i - 1) : ~Raised(normalize_task(tasks[j]))
         IN  normalize_task(tasks[first])
    ELSE Ret([i \in DOMAIN tasks |-> normalize_task(tasks[i]).val])

\* [normalize_project(p) for p in projects]
normalize_projects(projects) ==
    IF \E i \in DOMAIN projects : Raised(normalize_project(projects[i]))
    THEN Raise("KeyError")
    ELSE Ret([i \in DOMAIN projects |-> normalize_project(projects[i]).val])

---------------------------------------------------------------------------
(* The provider, as the tools see it through client.py: each client method  *)
(* returns the parsed JSON body, or raises HTTPStatusError on a non-2xx     *)
(* status.                                                                  *)

MaxProjects == 2

ErrorCodes == {404, 500}

HttpErrors == {[status |-> c] : c \in ErrorCodes}

Ok(body) == [status |-> 200, body |-> body]

Failed(resp) == resp.status # 200

RAW_PROJECT ==
    [id |-> <<"p1">>, name |-> <<"W", "o", "r", "k">>, color |-> <<"#FF0000">>,
     sortOrder |-> 0, closed |-> FALSE, groupId |-> <<>>, viewMode |-> <<"list">>,
     permission |-> <<"write">>, kind |-> <<"TASK">>]

RAW_PROJECT_2 == [id |-> <<"p2">>, name |-> <<"H", "o", "m", "e">>, closed |-> TRUE]

RAW_PROJECT_3 == [id |-> <<"p3">>]

\* the account's projects, in the order GET /project lists them
PROVIDER_PROJECTS == <<RAW_PROJECT_2, RAW_PROJECT, RAW_PROJECT_3>>

ProjectListings ==
    {SubSeq(PROVIDER_PROJECTS, 1, n) :
        n \in 0..(IF MaxProjects < Len(PROVIDER_PROJECTS)
                  THEN MaxProjects ELSE Len(PROVIDER_PROJECTS))}

RAW_TASK ==
    [id |-> <<"t1">>, projectId |-> <<"p1">>,
     title |-> <<"B", "u", "y", " ", "M", "i", "l", "k">>,
     content |-> <<"e", "g", "g", "s">>, desc |-> <<>>,
     priority |-> 5, status |-> 0, isAllDay |-> FALSE,
     dueDate |-> <<"2025-03-15", "T00:00:00", "+0000">>,
     startDate |-> <<"2025-03-14", "T00:00:00", "+0000">>,
     timeZone |-> <<"UTC">>, kind |-> <<"CHECKLIST">>, sortOrder |-> 12345,
     items |-> <<[id |-> <<"s1">>, title |-> <<"M">>, status |-> 0, sortOrder |-> 0],
                 [id |-> <<"s2">>, title |-> <<"E">>, status |-> 1, sortOrder |-> 1,
                  completedTime |-> <<"2025-03-14", "T14:00:00", "+0000">>]>>]

\* due at 02:00 local time at +05:00: the evening of the 14th in UTC
RAW_TASK_2 ==
    [id |-> <<"t2">>, projectId |-> <<"p1">>,
     title |-> <<"t", "e", "a">>,
     content |-> <<"o", "a", "t", " ", "M", "I", "L", "K">>,
     priority |-> 1, status |-> 0, isAllDay |-> TRUE,
     dueDate |-> <<"2025-03-15", "T02:00:00", "+0500">>,
     timeZone |-> <<"Asia/Karachi">>, sortOrder |-> 7]

RAW_TASK_3 == [id |-> <<"t3">>]

\* an unmapped priority code, a nonzero status other than 1, empty items
RAW_TASK_4 ==
    [id |-> <<"t4">>, projectId |-> <<"p2">>,
     title |-> <<"m", "i", "l", "k">>, priority |-> 4, status |-> 2,
     dueDate |-> <<"2025-03-16", "T00:00:00", "+0000">>, startDate |-> <<>>,
     items |-> <<>>]

RawTasks == {RAW_TASK, RAW_TASK_2, RAW_TASK_3, RAW_TASK_4}

\* GET /project/{id}/data
PROJECT_DATA(project_id) ==
    CASE project_id = <<"p1">> ->
            [project |-> RAW_PROJECT, tasks |-> <<RAW_TASK_2, RAW_TASK>>,
             columns |-> <<>>]
      [] project_id = <<"p2">> ->
            [project |-> RAW_PROJECT_2, tasks |-> <<RAW_TASK_4>>, columns |-> <<>>]
      [] project_id = <<"inbox">> ->
            [tasks |-> <<RAW_TASK_3, RAW_TASK_4>>]
      [] OTHER -> [project |-> [id |-> project_id]]

ProjectIds == {<<"p1">>, <<"p2">>}

TaskIds == {<<"t1">>}

Call(method, target, data) == [method |-> method, target |-> target, data |-> data]

---------------------------------------------------------------------------
(* server.py: what a tool returns.  A returned string is modelled by the    *)
(* JSON document it serialises, with kind telling whether that document is  *)
(* the {"error": ...} object.                                               *)

Pending == [kind |-> "pending"]

\* _error(msg)
error_json(msg) == [kind |-> "error", json |-> [error |-> msg]]

\* _ok(data)
ok_json(data) == [kind |-> "ok", json |-> data]

\* an exception leaving the tool function
Escapes(exc) == [kind |-> "raise", exc |-> exc[1]]

\* faulty variant: the message leaves the status code out
FailedMessage_no_code(what, resp) == <<what>>

\* f"Failed to ...: {e.response.status_code}"
FailedMessage(what, resp) == <<what, resp.status>>

\* _ok(normalize_task(task))
ok_task(task) ==
    LET n == normalize_task(task)
    IN  IF Raised(n) THEN Escapes(n.exc) ELSE ok_json(n.val)

\* _ok([normalize_task(t) for t in tasks])
ok_tasks(tasks) ==
    LET n == normalize_tasks(tasks)
    IN  IF Raised(n) THEN Escapes(n.exc) ELSE ok_json(n.val)

\* _ok(normalize_project(project))
ok_project(project) ==
    LET n == normalize_project(project)
    IN  IF Raised(n) THEN Escapes(n.exc) ELSE ok_json(n.val)

---------------------------------------------------------------------------
(* lifespan *)

\* the invocations the host may have in flight at once
MaxFlights == 2

Flights == 1..MaxFlights

\* an invocation that has not started
IdleFlight == [op |-> "", args |-> <<>>, pc |-> "idle", payload |-> <<>>,
               result |-> Pending]

Environments ==
    {[TICKTICK_API_TOKEN |-> <<"token">>],
     [TICKTICK_API_TOKEN |-> <<"token">>, TICKTICK_INBOX_PROJECT_ID |-> <<>>]}

lifespan_inbox_project_id(environ) ==
    Get(environ, "TICKTICK_INBOX_PROJECT_ID", <<"inbox">>)

\* client.py:22-25: httpx.AsyncClient(base_url=..., headers=...)
AsyncClient(api_token) ==
    [base_url  |-> <<"https://api.ticktick.com/open/v1">>,
     headers   |-> [Authorization |-> <<"Bearer ", api_token>>],
     is_closed |-> FALSE]

Init ==
    /\ env \in Environments
    /\ sessions = <<AsyncClient(env.TICKTICK_API_TOKEN)>>
    /\ _client = <<1>>
    /\ inbox_id = lifespan_inbox_project_id(env)
    /\ op = ""
    /\ args = <<>>
    /\ pc = "idle"
    /\ calls = <<>>
    /\ resps = <<>>
    /\ project_ids = <<>>
    /\ all_tasks = <<>>
    /\ result = Pending
    /\ store = RAW_TASK
    /\ flights = [i \in Flights |-> IdleFlight]

\* the host calls a tool when no invocation is in flight
CanInvoke == pc = "idle"

\* the host takes the returned string (or the exception) of a finished call
Deliver ==
    /\ pc = "done"
    /\ pc' = "idle"
    /\ op' = ""
    /\ args' = <<>>
    /\ calls' = <<>>
    /\ resps' = <<>>
    /\ project_ids' = <<>>
    /\ all_tasks' = <<>>
    /\ result' = Pending
    /\ UNCHANGED <<env, inbox_id, store, flights, _client, sessions>>

\* the tool function starts: its locals are fresh
Enter(name, a) ==
    /\ op' = name
    /\ args' = a
    /\ resps' = <<>>
    /\ UNCHANGED <<env, inbox_id, store, flights, _client, sessions>>

\* the locals of search_tasks do not exist in the other tools
NoSearchLocals ==
    /\ project_ids' = <<>>
    /\ all_tasks' = <<>>

\* the tool function returns (or raises)
Finish(r) ==
    /\ pc' = "done"
    /\ result' = r

\* the tool function awaits a client method
Await(label, call) ==
    /\ pc' = label
    /\ calls' = Append(calls, call)
    /\ result' = Pending

\* the awaited client method answers
Answer(resp) ==
    /\ resps' = Append(resps, resp)
    /\ UNCHANGED <<env, inbox_id, op, args, store, flights, _client, sessions>>

---------------------------------------------------------------------------
(* ticktick_list_projects *)

InboxEntry(inbox) ==
    [id |-> inbox, name |-> <<"I", "n", "b", "o", "x">>, color |-> None,
     viewMode |-> None, isClosed |-> FALSE]

\* faulty variant: the inbox entry is appended instead of inserted at index 0
list_projects_result_append(projects, inbox) ==
    LET n == normalize_projects(projects)
    IN  IF Raised(n) THEN Escapes(n.exc)
        ELSE IF Truthy(inbox)
             THEN ok_json(n.val \o <<InboxEntry(inbox)>>)
             ELSE ok_json(n.val)

\* lines 74-86: the result list
list_projects_result(projects, inbox) ==
    LET n == normalize_projects(projects)
    IN  IF Raised(n) THEN Escapes(n.exc)
        ELSE IF Truthy(inbox)
             THEN ok_json(<<InboxEntry(inbox)>> \o n.val)
             ELSE ok_json(n.val)

InvokeListProjects ==
    /\ CanInvoke
    /\ Enter("list_projects", <<>>)
    /\ calls' = <<Call("list_projects", <<>>, None)>>
    /\ pc' = "list_projects"
    /\ result' = Pending
    /\ NoSearchLocals

AnswerListProjects ==
    /\ pc = "list_projects"
    /\ \E resp \in HttpErrors \cup {Ok(l) : l \in ProjectListings} :
        /\ Answer(resp)
        /\ Finish(IF Failed(resp)
                  THEN error_json(FailedMessage("Failed to list projects: ", resp))
                  ELSE list_projects_result(resp.body, inbox_id))
    /\ UNCHANGED <<calls, project_ids, all_tasks>>

---------------------------------------------------------------------------
(* ticktick_get_project_tasks *)

InvokeGetProjectTasks ==
    /\ CanInvoke
    /\ \E project_id \in ProjectIds \cup {<<"p3">>} :
           /\ Enter("get_project_tasks", [project_id |-> project_id])
           /\ calls' = <<Call("get_project_data", <<project_id>>, None)>>
           /\ pc' = "get_project_tasks"
           /\ result' = Pending
           /\ NoSearchLocals

AnswerGetProjectTasks ==
    /\ pc = "get_project_tasks"
    /\ \E resp \in HttpErrors \cup {Ok(PROJECT_DATA(args.project_id))} :
        /\ Answer(resp)
        /\ Finish(IF Failed(resp)
                  THEN error_json(FailedMessage("Failed to get project tasks: ", resp))
                  ELSE ok_tasks(Get(resp.body, "tasks", <<>>)))
    /\ UNCHANGED <<calls, project_ids, all_tasks>>

---------------------------------------------------------------------------
(* ticktick_create_project *)

\* faulty variant: color and viewMode are always sent, null when omitted
create_project_payload_nulls(a) ==
    [name |-> a.name, color |-> Arg(a, "color"), viewMode |-> Arg(a, "view_mode")]

\* lines 127-131
create_project_payload(a) ==
    LET p1 == [name |-> a.name]
        p2 == IF "color" \in DOMAIN a THEN Put(p1, "color", a.color) ELSE p1
    IN  IF "view_mode" \in DOMAIN a THEN Put(p2, "viewMode", a.view_mode) ELSE p2

CreateProjectArgs ==
    {[name |-> <<"N">>],
     [name |-> <<"N">>, color |-> <<>>],
     [name |-> <<"N">>, color |-> <<"#F18181">>],
     [name |-> <<"N">>, view_mode |-> <<"kanban">>],
     [name |-> <<"N">>, color |-> <<"#F18181">>, view_mode |-> <<"kanban">>]}

InvokeCreateProject ==
    /\ CanInvoke
    /\ \E a \in CreateProjectArgs :
           /\ Enter("create_project", a)
           /\ calls' = <<Call("create_project", <<>>, create_project_payload(a))>>
           /\ pc' = "create_project"
           /\ result' = Pending
           /\ NoSearchLocals

\* POST /project answers with the project created from the payload
CreatedProject(payload) == Put(Put(payload, "id", <<"p9">>), "closed", FALSE)

AnswerCreateProject ==
    /\ pc = "create_project"
    /\ \E resp \in HttpErrors \cup {Ok(CreatedProject(calls[Len(calls)].data))} :
        /\ Answer(resp)
        /\ Finish(IF Failed(resp)
                  THEN error_json(FailedMessage("Failed to create project: ", resp))
                  ELSE ok_project(resp.body))
    /\ UNCHANGED <<calls, project_ids, all_tasks>>

---------------------------------------------------------------------------
(* ticktick_delete_project *)

InvokeDeleteProject ==
    /\ CanInvoke
    /\ \E project_id \in ProjectIds :
           /\ Enter("delete_project", [project_id |-> project_id])
           /\ calls' = <<Call("delete_project", <<project_id>>, None)>>
           /\ pc' = "delete_project"
           /\ result' = Pending
           /\ NoSearchLocals

AnswerDeleteProject ==
    /\ pc = "delete_project"
    /\ \E resp \in HttpErrors \cup {Ok(None)} :
        /\ Answer(resp)
        /\ Finish(IF Failed(resp)
                  THEN error_json(FailedMessage("Failed to delete project: ", resp))
                  ELSE ok_json([deleted |-> TRUE, projectId |-> args.project_id]))
    /\ UNCHANGED <<calls, project_ids, all_tasks>>

---------------------------------------------------------------------------
(* ticktick_get_task *)

InvokeGetTask ==
    /\ CanInvoke
    /\ \E project_id \in ProjectIds, task_id \in TaskIds :
           /\ Enter("get_task", [project_id |-> project_id, task_id |-> task_id])
           /\ calls' = <<Call("get_task", <<project_id, task_id>>, None)>>
           /\ pc' = "get_task"
           /\ result' = Pending
           /\ NoSearchLocals

AnswerGetTask ==
    /\ pc = "get_task"
    /\ \E resp \in HttpErrors \cup {Ok(t) : t \in RawTasks} :
        /\ Answer(resp)
        /\ Finish(IF Failed(resp)
                  THEN error_json(FailedMessage("Failed to get task: ", resp))
                  ELSE ok_task(resp.body))
    /\ UNCHANGED <<calls, project_ids, all_tasks>>

---------------------------------------------------------------------------
(* ticktick_complete_task *)

InvokeCompleteTask ==
    /\ CanInvoke
    /\ \E project_id \in ProjectIds, task_id \in TaskIds :
           /\ Enter("complete_task", [project_id |-> project_id, task_id |-> task_id])
           /\ calls' = <<Call("complete_task", <<project_id, task_id>>, None)>>
           /\ pc' = "complete_task"
           /\ result' = Pending
           /\ NoSearchLocals

AnswerCompleteTask ==
    /\ pc = "complete_task"
    /\ \E resp \in HttpErrors \cup {Ok(None)} :
        /\ Answer(resp)
        /\ Finish(IF Failed(resp)
                  THEN error_json(FailedMessage("Failed to complete task: ", resp))
                  ELSE ok_json([completed |-> TRUE, taskId |-> args.task_id]))
    /\ UNCHANGED <<calls, project_ids, all_tasks>>

---------------------------------------------------------------------------
(* What the synchronous stretch of a tool function ends with: a return (or  *)
(* an escaping exception), or a payload handed to the next client call.     *)

Return(r) == [send |-> FALSE, result |-> r]

Send(payload) == [send |-> TRUE, payload |-> payload]

\* args built from a set of base records by optionally adding key k
With(S, k, V) == S \cup {Put(a, k, v) : a \in S, v \in V}

\* str(e) of the ValueError priority_to_api raises
InvalidPriorityMessage(priority) ==
    <<"Invalid priority ", priority, ". Must be one of: none, low, medium, high">>

NoProjectMessage ==
    <<"No project_id provided and no Inbox project configured. ",
      "Call ticktick_list_projects first to get a project ID.">>

DateOnly == <<"2025-03-15">>

DateTimeNaive == <<"2025-03-15", "T14:00">>

DateTimeOffset == <<"2025-03-16", "T14:00:00", "+05:00">>

BadDate == <<"nope">>

SUBTASK_DONE == [id |-> <<"s1">>, title |-> <<"M">>, isCompleted |-> TRUE]

SUBTASK_NEW == [title |-> <<"N", "e", "w">>]

SUBTASK_UNTITLED == [isCompleted |-> FALSE]

SubtaskLists == {<<>>, <<SUBTASK_DONE, SUBTASK_NEW>>, <<SUBTASK_UNTITLED>>}

PriorityArgs == {<<" ", "H", "i", "g", "h", " ">>, <<"u", "r", "g", "e", "n", "t">>}

\* faulty variant: the inbox id is preferred to the given project id
resolve_project_id_inbox_first(project_id, inbox) ==
    IF Truthy(inbox) THEN inbox ELSE project_id

\* line 219: project_id or inbox_id
resolve_project_id(project_id, inbox) ==
    IF Truthy(project_id) THEN project_id ELSE inbox

\* faulty variant: the latest inference always wins
first_wins_overridden(all_day, date_is_all_day) == <<date_is_all_day>>

\* lines 244-245, 252-253, 326-327, 335-336: if all_day is None: all_day =
\* date_is_all_day (<<>> is None for the local all_day)
first_wins(all_day, date_is_all_day) ==
    IF all_day = <<>> THEN <<date_is_all_day>> ELSE all_day

---------------------------------------------------------------------------
(* ticktick_create_task *)

\* lines 219-264: <<>> is None for the local all_day
create_task_payload(a, inbox) ==
    LET resolved_project_id == resolve_project_id(Arg(a, "project_id"), inbox)
        priority == Get(a, "priority", L_none)
        api_priority == priority_to_api(priority)
        p0 == [title |-> a.title, projectId |-> resolved_project_id,
               priority |-> api_priority.val]
        p1 == IF "content" \in DOMAIN a THEN Put(p0, "content", a.content) ELSE p0
        is_all_day == IF "is_all_day" \in DOMAIN a THEN <<a.is_all_day>> ELSE <<>>
        has_due == "due_date" \in DOMAIN a
        due == date_to_api(a.due_date)
        p2 == IF has_due THEN Put(p1, "dueDate", due.val[1]) ELSE p1
        all_day1 == IF has_due THEN first_wins(is_all_day, due.val[2]) ELSE is_all_day
        has_start == "start_date" \in DOMAIN a
        start == date_to_api(a.start_date)
        p3 == IF has_start THEN Put(p2, "startDate", start.val[1]) ELSE p2
        all_day2 == IF has_start THEN first_wins(all_day1, start.val[2]) ELSE all_day1
        p4 == IF all_day2 # <<>> THEN Put(p3, "isAllDay", all_day2[1]) ELSE p3
        has_subtasks == "subtasks" \in DOMAIN a /\ a.subtasks # <<>>
        items == subtasks_to_api(a.subtasks)
        p5 == IF has_subtasks THEN Put(p4, "items", items.val) ELSE p4
    IN  IF ~Truthy(resolved_project_id) THEN Return(error_json(NoProjectMessage))
        ELSE IF Raised(api_priority)
             THEN Return(error_json(InvalidPriorityMessage(priority)))
        ELSE IF has_due /\ Raised(due)
             THEN Return(error_json(<<"Invalid due_date format: ", a.due_date>>))
        ELSE IF has_start /\ Raised(start)
             THEN Return(error_json(<<"Invalid start_date format: ", a.start_date>>))
        ELSE IF has_subtasks /\ Raised(items) THEN Return(Escapes(items.exc))
        ELSE Send(p5)

CreateTaskArgs ==
    With(With(With(With(With(With(With(
        {[title |-> <<"T">>]},
        "project_id", {<<>>, <<"p1">>}),
        "content", {<<"c">>}),
        "priority", PriorityArgs),
        "due_date", {DateOnly, DateTimeOffset, BadDate}),
        "start_date", {DateOnly, DateTimeNaive, BadDate}),
        "is_all_day", BOOLEAN),
        "subtasks", SubtaskLists)

InvokeCreateTask ==
    /\ CanInvoke
    /\ \E a \in CreateTaskArgs :
           LET out == create_task_payload(a, inbox_id)
           IN  /\ Enter("create_task", a)
               /\ IF out.send
                  THEN Await("create_task", Call("create_task", <<>>, out.payload))
                  ELSE /\ Finish(out.result)
                       /\ calls' = <<>>
               /\ NoSearchLocals

\* POST /task answers with the task created from the payload
CreatedTask(payload) == Put(Put(payload, "id", <<"t9">>), "status", 0)

AnswerCreateTask ==
    /\ pc = "create_task"
    /\ \E resp \in HttpErrors \cup {Ok(CreatedTask(calls[Len(calls)].data))} :
        /\ Answer(resp)
        /\ Finish(IF Failed(resp)
                  THEN error_json(FailedMessage("Failed to create task: ", resp))
                  ELSE ok_task(resp.body))
    /\ UNCHANGED <<calls, project_ids, all_tasks>>

---------------------------------------------------------------------------
(* ticktick_update_task *)

\* faulty variant: the payload is started afresh from the id instead of the fetched task
merge_text_fields_patch(existing, a) ==
    LET e0 == [k \in {"id"} |-> existing[k]]
        e1 == IF "title" \in DOMAIN a THEN Put(e0, "title", a.title) ELSE e0
    IN  IF "content" \in DOMAIN a THEN Put(e1, "content", a.content) ELSE e1

\* lines 310-313: title and content are overwritten on the fetched task
merge_text_fields(existing, a) ==
    LET e1 == IF "title" \in DOMAIN a THEN Put(existing, "title", a.title) ELSE existing
    IN  IF "content" \in DOMAIN a THEN Put(e1, "content", a.content) ELSE e1

\* faulty variant: the supplied subtasks are added to the fetched items
replace_items_merged(existing, items) ==
    Put(existing, "items", Get(existing, "items", <<>>) \o items)

\* line 345: existing["items"] = [...]
replace_items(existing, items) == Put(existing, "items", items)

\* lines 310-345: the merge into the fetched task; <<>> is None for all_day
merge_update(existing, a) ==
    LET e2 == merge_text_fields(existing, a)
        has_priority == "priority" \in DOMAIN a
        api_priority == priority_to_api(a.priority)
        e3 == IF has_priority THEN Put(e2, "priority", api_priority.val) ELSE e2
        is_all_day == IF "is_all_day" \in DOMAIN a THEN <<a.is_all_day>> ELSE <<>>
        has_due == "due_date" \in DOMAIN a
        due == date_to_api(a.due_date)
        e4 == IF has_due THEN Put(e3, "dueDate", due.val[1]) ELSE e3
        all_day1 == IF has_due THEN first_wins(is_all_day, due.val[2]) ELSE is_all_day
        has_start == "start_date" \in DOMAIN a
        start == date_to_api(a.start_date)
        e5 == IF has_start THEN Put(e4, "startDate", start.val[1]) ELSE e4
        all_day2 == IF has_start THEN first_wins(all_day1, start.val[2]) ELSE all_day1
        e6 == IF all_day2 # <<>> THEN Put(e5, "isAllDay", all_day2[1]) ELSE e5
        has_subtasks == "subtasks" \in DOMAIN a
        items == subtasks_to_api(a.subtasks)
        e7 == IF has_subtasks THEN replace_items(e6, items.val) ELSE e6
    IN  IF has_priority /\ Raised(api_priority)
        THEN Return(error_json(InvalidPriorityMessage(a.priority)))
        ELSE IF has_due /\ Raised(due)
             THEN Return(error_json(<<"Invalid due_date format: ", a.due_date>>))
        ELSE IF has_start /\ Raised(start)
             THEN Return(error_json(<<"Invalid start_date format: ", a.start_date>>))
        ELSE IF has_subtasks /\ Raised(items) THEN Return(Escapes(items.exc))
        ELSE Send(e7)

UpdateTaskArgs ==
    With(With(With(With(With(With(With(
        {[task_id |-> <<"t1">>, project_id |-> <<"p1">>]},
        "title", {<<"N", "e", "w">>}),
        "content", {<<"c">>}),
        "priority", PriorityArgs),
        "due_date", {DateOnly, DateTimeOffset, BadDate}),
        "start_date", {DateOnly, DateTimeNaive, BadDate}),
        "is_all_day", BOOLEAN),
        "subtasks", SubtaskLists)

\* faulty variant: a failed fetch is merged into and sent all the same
update_after_fetch_unchecked(resp, a) ==
    IF Failed(resp)
    THEN merge_update([id |-> a.task_id, projectId |-> a.project_id], a)
    ELSE merge_update(resp.body, a)

\* lines 305-345: what follows the answer to the fetch
update_after_fetch(resp, a) ==
    IF Failed(resp)
    THEN Return(error_json(FailedMessage("Failed to fetch task for update: ", resp)))
    ELSE merge_update(resp.body, a)

InvokeUpdateTask ==
    /\ CanInvoke
    /\ \E a \in UpdateTaskArgs :
           /\ Enter("update_task", a)
           /\ calls' = <<Call("get_task", <<a.project_id, a.task_id>>, None)>>
           /\ pc' = "update_fetch"
           /\ result' = Pending
           /\ NoSearchLocals

\* the fetch answers; the merge runs; the update is sent
AnswerUpdateFetch ==
    /\ pc = "update_fetch"
    /\ \E resp \in HttpErrors \cup {Ok(t) : t \in RawTasks \ {RAW_TASK_4}} :
        /\ Answer(resp)
        /\ \E out \in {update_after_fetch(resp, args)} :
               IF out.send
               THEN Await("update_send", Call("update_task", <<args.task_id>>, out.payload))
               ELSE /\ Finish(out.result)
                    /\ UNCHANGED calls
    /\ UNCHANGED <<project_ids, all_tasks>>

\* POST /task/{id} is a full replace and answers with the task as stored
AnswerUpdateSend ==
    /\ pc = "update_send"
    /\ \E resp \in HttpErrors \cup {Ok(calls[Len(calls)].data)} :
        /\ Answer(resp)
        /\ Finish(IF Failed(resp)
                  THEN error_json(FailedMessage("Failed to update task: ", resp))
                  ELSE ok_task(resp.body))
    /\ UNCHANGED <<calls, project_ids, all_tasks>>

---------------------------------------------------------------------------
(* ticktick_search_tasks *)

\* faulty variant: the inbox id is not added to the scope
listed_project_ids_no_inbox(projects, inbox) ==
    [i \in DOMAIN projects |-> projects[i].id]

\* lines 406-415 when no project id is given: the listed ids, then the inbox
listed_project_ids(projects, inbox) ==
    [i \in DOMAIN projects |-> projects[i].id]
        \o (IF Truthy(inbox) THEN <<inbox>> ELSE <<>>)

\* lines 420-426, 427-433: a bound is <<>> (None) or <<datetime>>
parse_bound(bound) ==
    IF ~Truthy(bound) THEN Ret(<<>>)
    ELSE LET parsed == fromisoformat(bound)
         IN  IF Raised(parsed) THEN parsed
             ELSE IF parsed.val.tz = <<>>
                  THEN Ret(<<replace_tzinfo_utc(parsed.val)>>)
                  ELSE Ret(<<parsed.val>>)

\* lines 436-443: target_priority, None when the filter is off
\* faulty variant: a label that is not one of the four is no filter
parse_priority_filter_lenient(priority) ==
    IF ~Truthy(priority) THEN Ret(None)
    ELSE LET target_priority == Strip(Lower(priority))
         IN  IF target_priority \notin {L_none, L_low, L_medium, L_high}
             THEN Ret(None)
             ELSE Ret(target_priority)

parse_priority_filter(priority) ==
    IF ~Truthy(priority) THEN Ret(None)
    ELSE LET target_priority == Strip(Lower(priority))
         IN  IF target_priority \notin {L_none, L_low, L_medium, L_high}
             THEN Raise("invalid")
             ELSE Ret(target_priority)

\* lines 417-443: the parsed filters, or the error returned
search_filters(a) ==
    LET dt_before == parse_bound(Arg(a, "due_before"))
        dt_after == parse_bound(Arg(a, "due_after"))
        target_priority == parse_priority_filter(Arg(a, "priority"))
    IN  IF Raised(dt_before)
        THEN Return(error_json(<<"Invalid due_before format: ", a.due_before>>))
        ELSE IF Raised(dt_after)
             THEN Return(error_json(<<"Invalid due_after format: ", a.due_after>>))
        ELSE IF Raised(target_priority)
             THEN Return(error_json(<<"Invalid priority filter ", a.priority,
                                      ". Must be one of: none, low, medium, high">>))
        ELSE Send([dt_before |-> dt_before.val, dt_after |-> dt_after.val,
                   target_priority |-> target_priority.val])

\* faulty variant: the query is matched against the title only
query_skips_title_only(normalized, query) ==
    /\ Truthy(query)
    /\ ~Contains(Lower(query),
                 Lower(IF Truthy(normalized.title) THEN normalized.title ELSE <<>>))

\* lines 457-462: the task is skipped by the query filter
query_skips(normalized, query) ==
    /\ Truthy(query)
    /\ LET q == Lower(query)
           title == Lower(IF Truthy(normalized.title) THEN normalized.title ELSE <<>>)
           content == Lower(IF Truthy(normalized.content)
                            THEN normalized.content ELSE <<>>)
       IN  ~Contains(q, title) /\ ~Contains(q, content)

\* lines 464-465: the task is skipped by the priority filter
priority_skips(normalized, target_priority) ==
    Truthy(target_priority) /\ normalized.priority # target_priority

\* faulty variant: the bounds are inclusive
due_skips_inclusive(normalized, dt_before, dt_after) ==
    /\ dt_before # <<>> \/ dt_after # <<>>
    /\ LET due_str == normalized.dueDate
           task_due == fromisoformat(due_str).val
       IN  \/ ~Truthy(due_str)
           \/ dt_before # <<>> /\ Instant(task_due) > Instant(dt_before[1])
           \/ dt_after # <<>> /\ Instant(task_due) < Instant(dt_after[1])

\* faulty variant: a task with no due date passes the bounds
due_skips_keeps_undated(normalized, dt_before, dt_after) ==
    /\ dt_before # <<>> \/ dt_after # <<>>
    /\ Truthy(normalized.dueDate)
    /\ LET task_due == fromisoformat(normalized.dueDate).val
       IN  \/ dt_before # <<>> /\ Instant(task_due) >= Instant(dt_before[1])
           \/ dt_after # <<>> /\ Instant(task_due) <= Instant(dt_after[1])

\* lines 467-475: the task is skipped by the due-date bounds
due_skips(normalized, dt_before, dt_after) ==
    /\ dt_before # <<>> \/ dt_after # <<>>
    /\ LET due_str == normalized.dueDate
           task_due == fromisoformat(due_str).val
       IN  \/ ~Truthy(due_str)
           \/ dt_before # <<>> /\ Instant(task_due) >= Instant(dt_before[1])
           \/ dt_after # <<>> /\ Instant(task_due) <= Instant(dt_after[1])

\* line 472, 474: comparing a naive datetime with an aware one raises
due_compare_raises(normalized, dt_before, dt_after) ==
    /\ dt_before # <<>> \/ dt_after # <<>>
    /\ Truthy(normalized.dueDate)
    /\ fromisoformat(normalized.dueDate).val.tz = <<>>

\* lines 453-477 for one normalized task: it is appended to all_tasks
search_keeps(normalized, a, f) ==
    /\ ~query_skips(normalized, Arg(a, "query"))
    /\ ~priority_skips(normalized, f.target_priority)
    /\ ~due_skips(normalized, f.dt_before, f.dt_after)

\* lines 453-477: what the tasks of one fetched project append to all_tasks
search_matches(tasks, a, f) ==
    LET n == normalize_tasks(tasks)
        reached(t) == /\ ~query_skips(t, Arg(a, "query"))
                      /\ ~priority_skips(t, f.target_priority)
    IN  IF Raised(n) THEN n
        ELSE IF \E i \in DOMAIN n.val :
                    reached(n.val[i]) /\ due_compare_raises(n.val[i], f.dt_before, f.dt_after)
             THEN Raise("TypeError")
        ELSE Ret(SelectSeq(n.val, LAMBDA t : search_keeps(t, a, f)))

\* faulty variant: the HTTPStatusError of a project's fetch is not caught
search_extend_uncaught(resp, a, f, tasks) ==
    IF Failed(resp) THEN Raise("HTTPStatusError")
    ELSE LET m == search_matches(Get(resp.body, "tasks", <<>>), a, f)
         IN  IF Raised(m) THEN m ELSE Ret(tasks \o m.val)

\* faulty variant: a project's matches are put in front of the earlier ones
search_extend_prepend(resp, a, f, tasks) ==
    IF Failed(resp) THEN Ret(tasks)
    ELSE LET m == search_matches(Get(resp.body, "tasks", <<>>), a, f)
         IN  IF Raised(m) THEN m ELSE Ret(m.val \o tasks)

\* lines 447-477: all_tasks after the answer to one project's fetch; a failed
\* fetch is skipped
search_extend(resp, a, f, tasks) ==
    IF Failed(resp) THEN Ret(tasks)
    ELSE LET m == search_matches(Get(resp.body, "tasks", <<>>), a, f)
         IN  IF Raised(m) THEN m ELSE Ret(tasks \o m.val)

BoundOffset == <<"2025-03-15", "T02:00:00", "+05:00">>

SearchArgs ==
    With(With(With(With(With(
        {<<>>},
        "query", {<<>>, <<"M", "I", "L", "K">>}),
        "project_id", {<<>>, <<"p1">>}),
        "priority", {<<>>, <<"N", "O", "N", "E">>} \cup PriorityArgs),
        "due_before", {DateOnly, BoundOffset, BadDate}),
        "due_after", {<<>>, DateOnly, BadDate})

\* faulty variant: the project fetched last is fetched once more
SearchLoop_again(pids, n, tasks) ==
    IF n <= Len(pids)
    THEN Await("search_fetch",
               Call("get_project_data", <<pids[IF n > 1 THEN n - 1 ELSE n]>>, None))
    ELSE /\ Finish(ok_json(tasks))
         /\ UNCHANGED calls

\* the search loop moves to project_ids[n], or returns after the last one
SearchLoop(pids, n, tasks) ==
    IF n <= Len(pids)
    THEN Await("search_fetch", Call("get_project_data", <<pids[n]>>, None))
    ELSE /\ Finish(ok_json(tasks))
         /\ UNCHANGED calls

InvokeSearchTasks ==
    /\ CanInvoke
    /\ \E a \in SearchArgs :
           /\ Enter("search_tasks", a)
           /\ all_tasks' = <<>>
           /\ IF Truthy(Arg(a, "project_id"))
              THEN LET f == search_filters(a)
                   IN  /\ project_ids' = <<a.project_id>>
                       /\ IF f.send
                          THEN Await("search_fetch",
                                     Call("get_project_data", <<a.project_id>>, None))
                          ELSE /\ Finish(f.result)
                               /\ calls' = <<>>
              ELSE /\ project_ids' = <<>>
                   /\ Await("search_list", Call("list_projects", <<>>, None))

AnswerSearchList ==
    /\ pc = "search_list"
    /\ \E resp \in HttpErrors \cup {Ok(l) : l \in ProjectListings} :
        /\ Answer(resp)
        /\ IF Failed(resp)
           THEN /\ Finish(error_json(FailedMessage("Failed to list projects: ", resp)))
                /\ UNCHANGED <<calls, project_ids>>
           ELSE LET pids == listed_project_ids(resp.body, inbox_id)
                    f == search_filters(args)
                IN  /\ project_ids' = pids
                    /\ IF f.send
                       THEN SearchLoop(pids, 1, <<>>)
                       ELSE /\ Finish(f.result)
                            /\ UNCHANGED calls
    /\ UNCHANGED all_tasks

\* the number of project details fetched so far, the pending one included
Fetches == Cardinality({i \in DOMAIN calls : calls[i].method = "get_project_data"})

AnswerSearchFetch ==
    /\ pc = "search_fetch"
    /\ \E resp \in HttpErrors \cup {Ok(PROJECT_DATA(project_ids[Fetches]))} :
        /\ Answer(resp)
        /\ \E m \in {search_extend(resp, args, search_filters(args).payload, all_tasks)} :
               IF Raised(m)
               THEN /\ Finish(Escapes(m.exc))
                    /\ UNCHANGED <<calls, all_tasks>>
               ELSE /\ all_tasks' = m.val
                    /\ SearchLoop(project_ids, Fetches + 1, m.val)
    /\ UNCHANGED project_ids

---------------------------------------------------------------------------

Next ==
    \/ Deliver
    \/ InvokeListProjects
    \/ AnswerListProjects
    \/ InvokeGetProjectTasks
    \/ AnswerGetProjectTasks
    \/ InvokeCreateProject
    \/ AnswerCreateProject
    \/ InvokeDeleteProject
    \/ AnswerDeleteProject
    \/ InvokeGetTask
    \/ AnswerGetTask
    \/ InvokeCompleteTask
    \/ AnswerCompleteTask
    \/ InvokeCreateTask
    \/ AnswerCreateTask
    \/ InvokeUpdateTask
    \/ AnswerUpdateFetch
    \/ AnswerUpdateSend
    \/ InvokeSearchTasks
    \/ AnswerSearchList
    \/ AnswerSearchFetch

Spec == Init /\ [][Next]_vars

---------------------------------------------------------------------------
(* Concurrent invocations: the host runs update_task and complete_task on   *)
(* task t1 concurrently; every await is a suspension point.  The provider   *)
(* keeps the task in store: GET /project/{pid}/task/{tid} answers with it,  *)
(* POST /task/{id} replaces it with the payload, and POST .../complete sets *)
(* its status to 2.                                                         *)

tool_vars == <<env, inbox_id, op, args, pc, calls, resps, project_ids, all_tasks,
               result, _client, sessions>>

\* an update of the title alone, or of the content alone
ConcurrentUpdateArgs ==
    {[task_id |-> <<"t1">>, project_id |-> <<"p1">>, title |-> <<"N", "e", "w">>],
     [task_id |-> <<"t1">>, project_id |-> <<"p1">>, content |-> <<"c">>]}

Fly(i, flight) ==
    /\ flights' = [flights EXCEPT ![i] = flight]
    /\ UNCHANGED tool_vars

\* ticktick_update_task up to await client.get_task()
FlightInvokeUpdate(i) ==
    /\ flights[i].pc = "idle"
    /\ \E a \in ConcurrentUpdateArgs :
           Fly(i, [IdleFlight EXCEPT !.op = "update_task", !.args = a,
                                     !.pc = "update_fetch"])
    /\ UNCHANGED store

\* the fetch answers with the provider's copy; the merge runs
FlightAnswerUpdateFetch(i) ==
    /\ flights[i].pc = "update_fetch"
    /\ \E resp \in HttpErrors \cup {Ok(store)} :
           IF Failed(resp)
           THEN Fly(i, [flights[i] EXCEPT
                          !.pc = "done",
                          !.result = error_json(FailedMessage(
                                         "Failed to fetch task for update: ", resp))])
           ELSE \E out \in {merge_update(resp.body, flights[i].args)} :
                    IF out.send
                    THEN Fly(i, [flights[i] EXCEPT !.pc = "update_send",
                                                   !.payload = out.payload])
                    ELSE Fly(i, [flights[i] EXCEPT !.pc = "done",
                                                   !.result = out.result])
    /\ UNCHANGED store

\* faulty variant: the provider patches its copy with the fields supplied
FlightAnswerUpdateSend_patch(i) ==
    /\ flights[i].pc = "update_send"
    /\ \/ \E resp \in HttpErrors :
              /\ Fly(i, [flights[i] EXCEPT
                            !.pc = "done",
                            !.result = error_json(FailedMessage(
                                           "Failed to update task: ", resp))])
              /\ UNCHANGED store
       \/ /\ store' = [k \in DOMAIN store |->
                          IF k \in DOMAIN flights[i].args
                          THEN flights[i].payload[k] ELSE store[k]]
          /\ Fly(i, [flights[i] EXCEPT !.pc = "done",
                                       !.result = ok_task(flights[i].payload)])

\* the update is sent: on success the provider replaces its copy
FlightAnswerUpdateSend(i) ==
    /\ flights[i].pc = "update_send"
    /\ \/ \E resp \in HttpErrors :
              /\ Fly(i, [flights[i] EXCEPT
                            !.pc = "done",
                            !.result = error_json(FailedMessage(
                                           "Failed to update task: ", resp))])
              /\ UNCHANGED store
       \/ /\ store' = flights[i].payload
          /\ Fly(i, [flights[i] EXCEPT !.pc = "done",
                                       !.result = ok_task(flights[i].payload)])

\* ticktick_complete_task up to await client.complete_task()
FlightInvokeComplete(i) ==
    /\ flights[i].pc = "idle"
    /\ Fly(i, [IdleFlight EXCEPT
                  !.op = "complete_task",
                  !.args = [task_id |-> <<"t1">>, project_id |-> <<"p1">>],
                  !.pc = "complete_task"])
    /\ UNCHANGED store

\* the completion answers: on success the provider marks its copy completed
FlightAnswerComplete(i) ==
    /\ flights[i].pc = "complete_task"
    /\ \/ \E resp \in HttpErrors :
              /\ Fly(i, [flights[i] EXCEPT
                            !.pc = "done",
                            !.result = error_json(FailedMessage(
                                           "Failed to complete task: ", resp))])
              /\ UNCHANGED store
       \/ /\ store' = [store EXCEPT !.status = 2]
          /\ Fly(i, [flights[i] EXCEPT
                        !.pc = "done",
                        !.result = ok_json([completed |-> TRUE,
                                            taskId |-> flights[i].args.task_id])])

\* the result is delivered; the host may run this invocation slot again
FlightDeliver(i) ==
    /\ flights[i].pc = "done"
    /\ Fly(i, IdleFlight)
    /\ UNCHANGED store

NextConcurrent ==
    \/ \E i \in Flights : FlightInvokeUpdate(i)
    \/ \E i \in Flights : FlightAnswerUpdateFetch(i)
    \/ \E i \in Flights : FlightAnswerUpdateSend(i)
    \/ \E i \in Flights : FlightInvokeComplete(i)
    \/ \E i \in Flights : FlightAnswerComplete(i)
    \/ \E i \in Flights : FlightDeliver(i)

SpecConcurrent == Init /\ [][NextConcurrent]_vars

---------------------------------------------------------------------------
(* The normalizers called on their own: op is the function, args its       *)
(* arguments, result what it returned (Ret) or raised (Raise).              *)

\* whitespace of up to MaxPad characters is put on either side of a label
MaxPad == 1

\* the priority codes tried are -1..MaxCode
MaxCode == 6

Labels == {L_none, L_low, L_medium, L_high}

UpperChar(c) ==
    IF \E u \in DOMAIN UpperToLower : UpperToLower[u] = c
    THEN CHOOSE u \in DOMAIN UpperToLower : UpperToLower[u] = c
    ELSE c

\* the label in lower case, in upper case, and capitalized
Cased(label) ==
    {label,
     [i \in DOMAIN label |-> UpperChar(label[i])],
     [i \in DOMAIN label |-> IF i = 1 THEN UpperChar(label[i]) ELSE label[i]]}

Pads == UNION {[1..n -> Whitespace] : n \in 0..MaxPad}

\* the spellings of a label: any of its cases, padded with whitespace
Spellings(label) == {l \o c \o r : l \in Pads, c \in Cased(label), r \in Pads}

\* strings that spell no label
InvalidPriorities ==
    {<<>>, <<" ">>, <<"u", "r", "g", "e", "n", "t">>, <<"m", "e", "d">>,
     <<"h", "i", " ", "g", "h">>, <<"n", "o", "n", "e", "s">>, <<"5">>,
     <<"h", "i", "g", "h", "!">>, <<" ", "L", "O", " ">>}

PriorityStrings == UNION {Spellings(l) : l \in Labels} \cup InvalidPriorities

PriorityCodes == (0 - 1)..MaxCode

\* a normalizer is called and returns or raises
Applied(name, a, r) ==
    /\ op' = name
    /\ args' = a
    /\ result' = r
    /\ pc' = "done"
    /\ UNCHANGED <<env, inbox_id, calls, resps, project_ids, all_tasks, store, flights, _client, sessions>>

ApplyPriorityToApi ==
    /\ pc = "idle"
    /\ \E priority \in PriorityStrings :
        Applied("priority_to_api", [priority |-> priority], priority_to_api(priority))

ApplyPriorityFromApi ==
    /\ pc = "idle"
    /\ \E priority \in PriorityCodes :
        Applied("priority_from_api", [priority |-> priority],
                Ret(priority_from_api(priority)))

\* every date, date and time, and date, time and offset fromisoformat accepts
AcceptedDates ==
    {<<d>> : d \in DOMAIN DATE_TOKENS}
        \cup {<<d, t>> : d \in DOMAIN DATE_TOKENS, t \in DOMAIN TIME_TOKENS}
        \cup {<<d, t, o>> : d \in DOMAIN DATE_TOKENS, t \in DOMAIN TIME_TOKENS,
                     o \in DOMAIN OFFSET_TOKENS}

RejectedDates == {BadDate, <<>>, <<"2025-3-15">>, <<"2025-03-15", "T24:00">>}

\* dates in the provider's format, YYYY-MM-DDTHH:MM:SS+HHMM
ProviderDates ==
    {<<d, t, o>> : d \in {x \in DOMAIN DATE_TOKENS : Len(x) = 10},
            t \in {x \in DOMAIN TIME_TOKENS : Len(x) = 9},
            o \in {x \in DOMAIN OFFSET_TOKENS : Len(x) = 5}}

ApplyDateToApi ==
    /\ pc = "idle"
    /\ \E date_str \in AcceptedDates \cup RejectedDates :
        Applied("date_to_api", [date_str |-> date_str], date_to_api(date_str))

ApplyDateFromApi ==
    /\ pc = "idle"
    /\ \E date_str \in AcceptedDates \cup RejectedDates \cup {None} :
        Applied("date_from_api", [date_str |-> date_str], date_from_api(date_str))

\* the provider status codes tried are 0..MaxStatus, and -1 for a subtask
MaxStatus == 2

\* provider items: with every key, and with none but the title
RAW_ITEMS ==
    {RAW_TASK.items, <<[title |-> <<"M">>], [id |-> <<"s9">>, status |-> 2]>>}

\* one provider item for subtask_from_api, each key missing or present
SubtaskFromApiInputs ==
    With(With(With(With(
        {<<>>},
        "id", {<<"s1">>}),
        "title", {<<"M">>, <<>>}),
        "status", (0 - 1)..MaxStatus),
        "sortOrder", {0})

\* one agent-facing subtask for subtask_to_api, each key missing or present
SubtaskToApiInputs ==
    With(With(With(
        {<<>>},
        "id", {<<"s1">>}),
        "title", {<<"M">>, <<>>}),
        "isCompleted", BOOLEAN)

ApplySubtaskFromApi ==
    /\ pc = "idle"
    /\ \E item \in SubtaskFromApiInputs :
        Applied("subtask_from_api", [item |-> item], Ret(subtask_from_api(item)))

ApplySubtaskToApi ==
    /\ pc = "idle"
    /\ \E subtask \in SubtaskToApiInputs :
        Applied("subtask_to_api", [subtask |-> subtask], subtask_to_api(subtask))

\* provider tasks for normalize_task: each optional key missing, None (JSON
\* null) where the provider may send null, empty, or holding a value
NormalizeTaskInputs ==
    With(With(With(With(With(With(With(With(
        {[id |-> <<"t1">>]},
        "projectId", {None, <<"p1">>}),
        "title", {<<"x">>}),
        "content", {<<"c">>}),
        "priority", {0, 3, 4}),
        "status", 0..MaxStatus),
        "dueDate", {None, <<>>, RAW_TASK.dueDate, BadDate}),
        "startDate", {None, <<>>, RAW_TASK_2.dueDate}),
        "items", {None, <<>>} \cup RAW_ITEMS)
      \cup {[title |-> <<"x">>]}

ApplyNormalizeTask ==
    /\ pc = "idle"
    /\ \E task \in NormalizeTaskInputs :
        Applied("normalize_task", [task |-> task], normalize_task(task))

NextNormalizers ==
    \/ ApplyPriorityToApi
    \/ ApplyPriorityFromApi
    \/ ApplyDateToApi
    \/ ApplyDateFromApi
    \/ ApplyNormalizeTask
    \/ ApplySubtaskFromApi
    \/ ApplySubtaskToApi

\* the normalizers read no environment: one will do
InitNormalizers == Init /\ env = [TICKTICK_API_TOKEN |-> <<"token">>]

SpecNormalizers == InitNormalizers /\ [][NextNormalizers]_vars

---------------------------------------------------------------------------
(* The life of the TickTickClient under lifespan: pc is where the lifespan  *)
(* stands, op the client method last called, calls the HTTP requests        *)
(* issued through the session, result what the method call gave.            *)

\* a client method issues HTTP requests only while fewer than MaxRequests
\* have been issued
MaxRequests == 2

LifespanEnvironments ==
    Environments \cup {<<>>, [TICKTICK_INBOX_PROJECT_ID |-> <<"i1">>],
                       [TICKTICK_API_TOKEN |-> <<"other">>]}

\* client.py:41
NotInitialized ==
    Raise("RuntimeError: TickTickClient must be used as an async context manager")

\* httpx refuses to send on a client whose aclose() has begun
ClientClosed ==
    Raise("RuntimeError: Cannot send a request, as the client has been closed.")

\* the eight methods, called for project p1 and task t1
CLIENT_METHODS ==
    [list_projects    |-> [verb |-> "GET", url |-> <<"/project">>],
     get_project_data |-> [verb |-> "GET", url |-> <<"/project/", "p1", "/data">>],
     create_project   |-> [verb |-> "POST", url |-> <<"/project">>],
     delete_project   |-> [verb |-> "DELETE", url |-> <<"/project/", "p1">>],
     get_task         |-> [verb |-> "GET", url |-> <<"/project/", "p1", "/task/", "t1">>],
     create_task      |-> [verb |-> "POST", url |-> <<"/task">>],
     update_task      |-> [verb |-> "POST", url |-> <<"/task/", "t1">>],
     complete_task    |-> [verb |-> "POST",
                           url |-> <<"/project/", "p1", "/task/", "t1", "/complete">>]]

\* the request as the session sends it
Request(session, method) ==
    [verb    |-> CLIENT_METHODS[method].verb,
     url     |-> sessions[session].base_url \o CLIENT_METHODS[method].url,
     headers |-> sessions[session].headers]

InitLifecycle ==
    /\ env \in LifespanEnvironments
    /\ inbox_id = None
    /\ op = ""
    /\ args = <<>>
    /\ pc = "start"
    /\ calls = <<>>
    /\ resps = <<>>
    /\ project_ids = <<>>
    /\ all_tasks = <<>>
    /\ result = Pending
    /\ store = RAW_TASK
    /\ flights = [i \in Flights |-> IdleFlight]
    /\ _client = <<>>
    /\ sessions = <<>>

lifecycle_frame == <<env, args, resps, project_ids, all_tasks, store, flights>>

\* server.py:28-30, client.py:17-19: the token is read (KeyError when it is
\* not set), the inbox id is read, the client object is constructed
LifespanStart ==
    /\ pc = "start"
    /\ IF "TICKTICK_API_TOKEN" \in DOMAIN env
       THEN /\ inbox_id' = lifespan_inbox_project_id(env)
            /\ pc' = "constructed"
            /\ UNCHANGED result
       ELSE /\ pc' = "failed"
            /\ result' = Raise("KeyError")
            /\ UNCHANGED inbox_id
    /\ UNCHANGED <<op, calls, _client, sessions>>
    /\ UNCHANGED lifecycle_frame

\* client.py:21-26: __aenter__ opens the session; the lifespan yields
ClientEnter ==
    /\ pc = "constructed"
    /\ sessions' = Append(sessions, AsyncClient(env.TICKTICK_API_TOKEN))
    /\ _client' = <<Len(sessions) + 1>>
    /\ pc' = "entered"
    /\ UNCHANGED <<inbox_id, op, calls, result>>
    /\ UNCHANGED lifecycle_frame

\* faulty variant: an error raised inside the scope skips the release
LifespanExit_leaks_on_error ==
    /\ pc = "entered"
    /\ \E error \in BOOLEAN :
          IF _client # <<>> /\ ~error
          THEN /\ sessions' = [sessions EXCEPT ![_client[1]].is_closed = TRUE]
               /\ pc' = "closing"
          ELSE /\ pc' = IF error THEN "exited_error" ELSE "exited"
               /\ UNCHANGED sessions
    /\ UNCHANGED <<inbox_id, op, calls, result, _client>>
    /\ UNCHANGED lifecycle_frame

\* server.py:30-31, client.py:28-35: the scope is left, by shutdown or by an
\* error raised inside it; __aexit__ awaits the session's aclose()
LifespanExit ==
    /\ pc = "entered"
    /\ \E error \in BOOLEAN :
          IF _client # <<>>
          THEN /\ sessions' = [sessions EXCEPT ![_client[1]].is_closed = TRUE]
               /\ pc' = IF error THEN "closing_error" ELSE "closing"
          ELSE /\ pc' = IF error THEN "exited_error" ELSE "exited"
               /\ UNCHANGED sessions
    /\ UNCHANGED <<inbox_id, op, calls, result, _client>>
    /\ UNCHANGED lifecycle_frame

\* faulty variant: the reference to the closed session is kept
ClientExit_keeps_reference ==
    /\ pc \in {"closing", "closing_error"}
    /\ pc' = IF pc = "closing" THEN "exited" ELSE "exited_error"
    /\ UNCHANGED <<inbox_id, op, calls, result, sessions, _client>>
    /\ UNCHANGED lifecycle_frame

\* client.py:36: aclose() is over, the reference is cleared; the lifespan
\* ends, raising the error again if there was one
ClientExit ==
    /\ pc \in {"closing", "closing_error"}
    /\ _client' = <<>>
    /\ pc' = IF pc = "closing" THEN "exited" ELSE "exited_error"
    /\ UNCHANGED <<inbox_id, op, calls, result, sessions>>
    /\ UNCHANGED lifecycle_frame

\* client.py:38-42 and the first line of each method: the client property
\* is read and the request is handed to the session
ClientCall ==
    /\ pc \in {"constructed", "entered", "closing", "closing_error", "exited",
               "exited_error"}
    /\ op = "" \/ result # Pending
    /\ \E method \in DOMAIN CLIENT_METHODS :
          /\ op' = method
          /\ IF _client = <<>>
             THEN result' = NotInitialized /\ UNCHANGED calls
             ELSE IF sessions[_client[1]].is_closed
             THEN result' = ClientClosed /\ UNCHANGED calls
             ELSE /\ Len(calls) < MaxRequests
                  /\ calls' = Append(calls, Request(_client[1], method))
                  /\ result' = Pending
    /\ UNCHANGED <<inbox_id, pc, _client, sessions>>
    /\ UNCHANGED lifecycle_frame

\* the last two lines of each method: raise_for_status(), then the body
ClientAnswer ==
    /\ op # ""
    /\ result = Pending
    /\ result' \in {Raise("HTTPStatusError"),
                    Ret(IF op \in {"delete_project", "complete_task"}
                        THEN None ELSE <<"resp.json()">>)}
    /\ UNCHANGED <<inbox_id, op, pc, calls, _client, sessions>>
    /\ UNCHANGED lifecycle_frame

NextLifecycle ==
    \/ LifespanStart
    \/ ClientEnter
    \/ LifespanExit
    \/ ClientExit
    \/ ClientCall
    \/ ClientAnswer

SpecLifecycle == InitLifecycle /\ [][NextLifecycle]_vars

\* the event loop resumes __aexit__ once aclose() is over
SpecLifecycleFair == SpecLifecycle /\ WF_vars(ClientExit)

---------------------------------------------------------------------------
(* Properties: update_task *)

\* the key of the update payload each optional parameter writes
KeyParameter ==
    [title |-> "title", content |-> "content", priority |-> "priority",
     dueDate |-> "due_date", startDate |-> "start_date",
     isAllDay |-> "is_all_day", items |-> "subtasks"]

Supplied(k) == k \in DOMAIN KeyParameter /\ KeyParameter[k] \in DOMAIN args

UpdateSent == op = "update_task" /\ Len(calls) = 2

Fetched == resps[1].body

SentPayload == calls[2].data

\* isAllDay is inferred from a supplied date when is_all_day is not supplied
AllDayInferred ==
    /\ "is_all_day" \notin DOMAIN args
    /\ "due_date" \in DOMAIN args \/ "start_date" \in DOMAIN args

\* C1 as stated: every key of the update payload that belongs to no supplied
\* parameter, isAllDay included whenever is_all_day was not supplied, has the
\* value it had in the fetched task, and no fetched key is missing.
C1_FramePreserved_Original ==
    UpdateSent =>
        /\ DOMAIN Fetched \subseteq DOMAIN SentPayload
        /\ \A k \in DOMAIN SentPayload :
              ~Supplied(k) => k \in DOMAIN Fetched /\ SentPayload[k] = Fetched[k]

\* C1 as amended: the same, except that isAllDay is also written when
\* is_all_day was not supplied but due_date or start_date was (the flag is
\* then inferred from the date).
C1_FramePreserved ==
    UpdateSent =>
        /\ DOMAIN Fetched \subseteq DOMAIN SentPayload
        /\ \A k \in DOMAIN SentPayload :
              (~Supplied(k) /\ ~(k = "isAllDay" /\ AllDayInferred))
                  => k \in DOMAIN Fetched /\ SentPayload[k] = Fetched[k]

C1_Witness ==
    /\ UpdateSent
    /\ DOMAIN args = {"task_id", "project_id", "title", "due_date"}
    /\ Fetched = RAW_TASK
    /\ SentPayload.title # Fetched.title
    /\ SentPayload.isAllDay # Fetched.isAllDay
    /\ SentPayload.sortOrder = Fetched.sortOrder
    /\ SentPayload.items = Fetched.items

---------------------------------------------------------------------------
(* Properties: provider failures and exceptions *)

\* C2: a non-2xx answer to any provider call, other than a project fetch of
\* search_tasks, ends the operation with the {"error": ...} object carrying the
\* status code, and with no success payload.
C2_HttpErrorReturned ==
    \A i \in DOMAIN resps :
        (Failed(resps[i]) /\ ~(op = "search_tasks" /\ calls[i].method = "get_project_data"))
            => /\ pc = "done"
               /\ i = Len(resps)
               /\ result.kind = "error"
               /\ Len(result.json.error) = 2
               /\ result.json.error[2] = resps[i].status

C2_Witness ==
    /\ op = "update_task"
    /\ Len(resps) = 2
    /\ Failed(resps[2])
    /\ resps[2].status = 500
    /\ result.kind = "error"

\* C3: every operation ends by returning a string, the normalized payload or
\* the {"error": ...} object; no exception leaves a tool function.
C3_NeverRaises == pc = "done" => result.kind \in {"ok", "error"}

---------------------------------------------------------------------------
(* Properties: search_tasks *)

Decoded(task) == normalize_task(task).val

DecodedAll(tasks) == [i \in DOMAIN tasks |-> Decoded(tasks[i])]

ListedFirst == calls # <<>> /\ calls[1].method = "list_projects"

\* the project fetches issued, and the answers they got so far
FetchCalls == SelectSeq(calls, LAMBDA c : c.method = "get_project_data")

FetchResps == IF ListedFirst THEN Tail(resps) ELSE resps

FetchTargets == [i \in DOMAIN FetchCalls |-> FetchCalls[i].target[1]]

SearchDone == op = "search_tasks" /\ pc = "done" /\ result.kind = "ok"

\* the decoded tasks of the projects whose fetch succeeded, in fetch order
SucceededTasks ==
    Concat([i \in DOMAIN FetchResps |->
              IF Failed(FetchResps[i]) THEN <<>>
              ELSE DecodedAll(Get(FetchResps[i].body, "tasks", <<>>))])

Active(filter) == filter \in DOMAIN args /\ args[filter] # <<>>

QueryPasses(t) ==
    Active("query") =>
        \/ Contains(Lower(args.query), Lower(t.title))
        \/ Contains(Lower(args.query), Lower(t.content))

PriorityPasses(t) == Active("priority") => t.priority = Strip(Lower(args.priority))

\* the instant of a bound, UTC when it has no offset
BoundInstant(bound) ==
    LET dt == fromisoformat(bound).val
    IN  (dt.day * 1440 + dt.min - (IF dt.tz = <<>> THEN 0 ELSE dt.tz[1])) * 60000 + dt.ms

DueInstant(t) == Instant(fromisoformat(t.dueDate).val)

DuePasses(t) ==
    /\ Active("due_before") =>
          t.dueDate # None /\ DueInstant(t) < BoundInstant(args.due_before)
    /\ Active("due_after") =>
          t.dueDate # None /\ DueInstant(t) > BoundInstant(args.due_after)

\* C4: once every scoped project was tried, whichever fetches failed, the
\* search returns a success list holding exactly the matches of the projects
\* whose fetch succeeded (the empty list when all failed).
C4_FailedProjectSkipped ==
    (op = "search_tasks" /\ pc = "done" /\ FetchCalls # <<>>) =>
        /\ result.kind = "ok"
        /\ Len(FetchCalls) = Len(project_ids)
        /\ result.json =
              Concat([i \in DOMAIN FetchResps |->
                        IF Failed(FetchResps[i]) THEN <<>>
                        ELSE search_matches(Get(FetchResps[i].body, "tasks", <<>>),
                                            args, search_filters(args).payload).val])
        /\ (\A i \in DOMAIN FetchResps : Failed(FetchResps[i])) => result.json = <<>>

C4_Witness ==
    /\ SearchDone
    /\ Len(FetchResps) = 3
    /\ Failed(FetchResps[1])
    /\ ~Failed(FetchResps[2])
    /\ Failed(FetchResps[3])
    /\ result.json # <<>>

\* C5: a decoded task of a successfully fetched project is in the result if
\* and only if it passes the query filter, the priority filter and the due
\* bounds, each passing every task when absent or empty.
C5_FiltersConjunctive ==
    SearchDone =>
        \A i \in DOMAIN SucceededTasks :
            LET t == SucceededTasks[i]
            IN  t \in Range(result.json)
                    <=> (QueryPasses(t) /\ PriorityPasses(t) /\ DuePasses(t))

C5_Witness ==
    /\ SearchDone
    /\ Active("query")
    /\ Active("priority")
    /\ ~Active("due_before")
    /\ ~Active("due_after")
    /\ \E i, j, k \in DOMAIN SucceededTasks :
          /\ SucceededTasks[i] \in Range(result.json)
          /\ ~QueryPasses(SucceededTasks[j])
          /\ QueryPasses(SucceededTasks[k]) /\ ~PriorityPasses(SucceededTasks[k])

\* C6: a kept task that has a due date is due strictly before due_before and
\* strictly after due_after, as instants, a bound without offset being UTC.
C6_DueBoundsStrict ==
    SearchDone =>
        \A t \in Range(result.json) :
            t.dueDate # None =>
                /\ Active("due_before") => DueInstant(t) < BoundInstant(args.due_before)
                /\ Active("due_after") => DueInstant(t) > BoundInstant(args.due_after)

\* due exactly at the bound: left out; due earlier as an instant although its
\* wall-clock time is later than the bound's: kept
C6_Witness ==
    /\ SearchDone
    /\ ~Active("query") /\ ~Active("priority") /\ ~Active("due_after")
    /\ Active("due_before") /\ args.due_before = DateOnly
    /\ Decoded(RAW_TASK) \in Range(SucceededTasks)
    /\ Decoded(RAW_TASK) \notin Range(result.json)
    /\ DueInstant(Decoded(RAW_TASK)) = BoundInstant(DateOnly)
    /\ Decoded(RAW_TASK_2) \in Range(result.json)

\* C7: a task with no due date is left out whenever a due bound is active, and
\* is never left out on due-date grounds when none is.
C7_UndatedExcludedByBounds ==
    SearchDone =>
        \A i \in DOMAIN SucceededTasks :
            LET t == SucceededTasks[i]
            IN  t.dueDate = None =>
                    IF Active("due_before") \/ Active("due_after")
                    THEN t \notin Range(result.json)
                    ELSE (QueryPasses(t) /\ PriorityPasses(t)) => t \in Range(result.json)

C7_Witness ==
    /\ SearchDone
    /\ ~Active("query") /\ ~Active("priority") /\ ~Active("due_before")
    /\ Active("due_after")
    /\ Decoded(RAW_TASK_3) \in Range(SucceededTasks)
    /\ Decoded(RAW_TASK_3) \notin Range(result.json)
    /\ result.json # <<>>

\* the scope the search is to cover
ExpectedScope ==
    IF Active("project_id") THEN <<args.project_id>>
    ELSE IF resps = <<>> \/ Failed(resps[1]) THEN <<>>
    ELSE [i \in DOMAIN resps[1].body |-> resps[1].body[i].id]
             \o (IF inbox_id # <<>> THEN <<inbox_id>> ELSE <<>>)

\* C8: with a project id the search fetches that project only and never lists;
\* without one it lists once and fetches the listed projects in turn, then the
\* configured inbox id, and nothing else.
C8_SearchScope ==
    op = "search_tasks" =>
        /\ Len(FetchTargets) <= Len(ExpectedScope)
        /\ FetchTargets = SubSeq(ExpectedScope, 1, Len(FetchTargets))
        /\ SearchDone => FetchTargets = ExpectedScope
        /\ IF Active("project_id")
           THEN \A i \in DOMAIN calls : calls[i].method # "list_projects"
           ELSE \A i \in DOMAIN calls : calls[i].method = "list_projects" <=> i = 1

C8_Witness ==
    /\ SearchDone
    /\ ~Active("project_id")
    /\ FetchTargets = <<<<"p2">>, <<"p1">>, <<"inbox">>>>

\* the decoded tasks of the scoped projects whose fetch succeeded, projects in
\* listing order with the inbox last, tasks in the provider's order
ExpectedOrder ==
    Concat([i \in DOMAIN ExpectedScope |->
              IF i \in DOMAIN FetchResps /\ ~Failed(FetchResps[i])
              THEN DecodedAll(Get(PROJECT_DATA(ExpectedScope[i]), "tasks", <<>>))
              ELSE <<>>])

\* C9: the result is the order-preserving subsequence of that concatenation.
C9_ProviderOrder ==
    SearchDone =>
        result.json = SelectSeq(ExpectedOrder, LAMBDA t : t \in Range(result.json))

C9_Witness ==
    /\ SearchDone
    /\ Len(result.json) = 5
    /\ result.json[1].id = <<"t4">>
    /\ result.json[2].id = <<"t2">>
    /\ result.json[3].id = <<"t1">>
    /\ result.json[4].id = <<"t3">>
    /\ result.json[5].id = <<"t4">>

---------------------------------------------------------------------------
(* Properties: list_projects *)

\* C10: with a non-empty inbox id the list is the synthetic Inbox entry followed
\* by the decoded provider projects in provider order; with an empty one it is
\* the decoded provider projects alone.
C10_InboxPrepended ==
    (op = "list_projects" /\ pc = "done" /\ ~Failed(resps[1])) =>
        LET projects == resps[1].body
            decoded == [i \in DOMAIN projects |-> normalize_project(projects[i]).val]
            synthetic == [id |-> inbox_id, name |-> <<"I", "n", "b", "o", "x">>,
                          color |-> None, viewMode |-> None, isClosed |-> FALSE]
        IN  /\ result.kind = "ok"
            /\ IF inbox_id # <<>>
               THEN /\ Len(result.json) = Len(projects) + 1
                    /\ result.json[1] = synthetic
                    /\ Tail(result.json) = decoded
               ELSE result.json = decoded

C10_Witness ==
    /\ op = "list_projects"
    /\ pc = "done"
    /\ inbox_id = <<"inbox">>
    /\ result.kind = "ok"
    /\ Len(result.json) = 3
    /\ result.json[1].name = <<"I", "n", "b", "o", "x">>
    /\ result.json[2].id = <<"p2">>

---------------------------------------------------------------------------
(* Properties: configuration *)

InboxUnset == "TICKTICK_INBOX_PROJECT_ID" \notin DOMAIN env

\* C11: when the inbox environment variable is unset the tools see no inbox
\* id: list_projects returns the decoded provider projects alone, search_tasks
\* fetches listed projects only, and create_task without a project_id makes no
\* provider call and returns the no-project error.
C11_InboxOptional ==
    InboxUnset =>
        /\ (op = "list_projects" /\ pc = "done" /\ result.kind = "ok") =>
              result.json = [i \in DOMAIN resps[1].body |->
                               normalize_project(resps[1].body[i]).val]
        /\ (op = "search_tasks" /\ ~Active("project_id") /\ Len(resps) >= 1
                /\ ~Failed(resps[1])) =>
              \A i \in DOMAIN FetchTargets :
                  \E j \in DOMAIN resps[1].body : FetchTargets[i] = resps[1].body[j].id
        /\ (op = "create_task" /\ ~Active("project_id")) =>
              /\ calls = <<>>
              /\ pc = "done" => result = error_json(NoProjectMessage)

---------------------------------------------------------------------------
(* Properties: create_project, create_task *)

CreatePayload == calls[1].data

\* the keys of a payload that hold a string
TextKeys == {"name", "color", "viewMode", "title", "projectId", "content",
             "dueDate", "startDate"}

NoNullText(payload) == \A k \in DOMAIN payload \cap TextKeys : payload[k] # None

\* C12: the create_project payload holds name, plus color and viewMode exactly
\* when supplied; the create_task payload holds content, dueDate, startDate,
\* isAllDay and items only when the corresponding argument was supplied
\* (isAllDay also when a date was); no key of either carries a null.
C12_SparsePayloads ==
    /\ (op = "create_project" /\ calls # <<>>) =>
          /\ DOMAIN CreatePayload =
                {"name"} \cup (IF "color" \in DOMAIN args THEN {"color"} ELSE {})
                         \cup (IF "view_mode" \in DOMAIN args THEN {"viewMode"} ELSE {})
          /\ NoNullText(CreatePayload)
    /\ (op = "create_task" /\ calls # <<>>) =>
          /\ DOMAIN CreatePayload \subseteq
                {"title", "projectId", "priority", "content", "dueDate",
                 "startDate", "isAllDay", "items"}
          /\ "content" \in DOMAIN CreatePayload => "content" \in DOMAIN args
          /\ "dueDate" \in DOMAIN CreatePayload => "due_date" \in DOMAIN args
          /\ "startDate" \in DOMAIN CreatePayload => "start_date" \in DOMAIN args
          /\ "items" \in DOMAIN CreatePayload => "subtasks" \in DOMAIN args
          /\ "isAllDay" \in DOMAIN CreatePayload =>
                \E k \in {"is_all_day", "due_date", "start_date"} : k \in DOMAIN args
          /\ NoNullText(CreatePayload)
          /\ CreatePayload.priority \in {0, 1, 3, 5}
          /\ "isAllDay" \in DOMAIN CreatePayload => CreatePayload.isAllDay \in BOOLEAN
          /\ "items" \in DOMAIN CreatePayload => CreatePayload.items # <<>>

C12_Witness ==
    /\ op = "create_task"
    /\ calls # <<>>
    /\ DOMAIN args = {"title", "project_id", "due_date"}
    /\ DOMAIN CreatePayload = {"title", "projectId", "priority", "dueDate", "isAllDay"}

\* C13: create_task sends the task to the given project id when one is given,
\* otherwise to the configured inbox id; with neither it makes no provider
\* call and returns the error that names project_id.
C13_ProjectResolution ==
    op = "create_task" =>
        IF Active("project_id")
        THEN calls # <<>> => CreatePayload.projectId = args.project_id
        ELSE IF inbox_id # <<>>
        THEN calls # <<>> => CreatePayload.projectId = inbox_id
        ELSE /\ calls = <<>>
             /\ pc = "done"
             /\ result = error_json(NoProjectMessage)
             /\ Contains(<<"p", "r", "o", "j", "e", "c", "t", "_", "i", "d">>,
                         [i \in 1..Len(NoProjectMessage[1]) |->
                            SubSeq(NoProjectMessage[1], i, i)])

C13_Witness ==
    /\ op = "create_task"
    /\ ~Active("project_id")
    /\ inbox_id = <<>>
    /\ pc = "done"
    /\ result.kind = "error"

---------------------------------------------------------------------------
(* Properties: all-day resolution, subtasks *)

\* the all-day flag a date string implies
Inferred(date_str) == date_to_api(date_str).val[2]

\* the flag the operation is to send: <<>> when it is to set none itself
ExpectedAllDay ==
    IF "is_all_day" \in DOMAIN args THEN <<args.is_all_day>>
    ELSE IF "due_date" \in DOMAIN args THEN <<Inferred(args.due_date)>>
    ELSE IF "start_date" \in DOMAIN args THEN <<Inferred(args.start_date)>>
    ELSE <<>>

\* C14: create_task and update_task send the explicit is_all_day when there is
\* one, otherwise the flag inferred from due_date, otherwise the one inferred
\* from start_date; with no flag and no date they set no isAllDay themselves
\* (create sends none, update sends the fetched one).
C14_AllDayResolution ==
    /\ (op = "create_task" /\ calls # <<>>) =>
          IF ExpectedAllDay = <<>>
          THEN "isAllDay" \notin DOMAIN CreatePayload
          ELSE "isAllDay" \in DOMAIN CreatePayload
                   /\ CreatePayload.isAllDay = ExpectedAllDay[1]
    /\ UpdateSent =>
          IF ExpectedAllDay = <<>>
          THEN /\ "isAllDay" \in DOMAIN SentPayload <=> "isAllDay" \in DOMAIN Fetched
               /\ "isAllDay" \in DOMAIN Fetched => SentPayload.isAllDay = Fetched.isAllDay
          ELSE "isAllDay" \in DOMAIN SentPayload
                   /\ SentPayload.isAllDay = ExpectedAllDay[1]

\* a date-only due date and a start date with a time: due wins
C14_Witness ==
    /\ UpdateSent
    /\ "is_all_day" \notin DOMAIN args
    /\ "due_date" \in DOMAIN args /\ Inferred(args.due_date)
    /\ "start_date" \in DOMAIN args /\ ~Inferred(args.start_date)
    /\ Fetched = RAW_TASK
    /\ Fetched.isAllDay = FALSE
    /\ SentPayload.isAllDay = TRUE

\* the provider encoding of a caller's subtask
EncodedSubtask(subtask) ==
    [title |-> subtask.title,
     status |-> IF "isCompleted" \in DOMAIN subtask /\ subtask.isCompleted THEN 1 ELSE 0]

\* C15: when update_task is given a subtask list, the empty one included, the
\* items sent are exactly the encodings of the given subtasks in their order;
\* when it is given none, the fetched items are sent unchanged.
C15_SubtasksReplaced ==
    UpdateSent =>
        IF "subtasks" \in DOMAIN args
        THEN /\ "items" \in DOMAIN SentPayload
             /\ SentPayload.items =
                   [i \in DOMAIN args.subtasks |-> EncodedSubtask(args.subtasks[i])]
        ELSE /\ "items" \in DOMAIN SentPayload <=> "items" \in DOMAIN Fetched
             /\ "items" \in DOMAIN Fetched => SentPayload.items = Fetched.items

C15_Witness ==
    /\ UpdateSent
    /\ "subtasks" \in DOMAIN args
    /\ Len(args.subtasks) = 2
    /\ Fetched = RAW_TASK
    /\ Len(Fetched.items) = 2
    /\ \A i \in DOMAIN SentPayload.items : SentPayload.items[i] \notin Range(Fetched.items)
    /\ Len(SentPayload.items) = 2
    /\ SentPayload.items[1] = [title |-> <<"M">>, status |-> 1]
    /\ SentPayload.items[2].status = 0

---------------------------------------------------------------------------
(* Properties: concurrent invocations *)

\* C16: once the provider's copy of the task is completed (its status is not
\* 0), no step of any invocation makes it active (status 0) again.
C16_CompletionOneWay == [][store.status # 0 => store'.status # 0]_vars

---------------------------------------------------------------------------
(* Properties: priorities *)

\* the fixed mapping none:0, low:1, medium:3, high:5
FixedCode == (L_none :> 0) @@ (L_low :> 1) @@ (L_medium :> 3) @@ (L_high :> 5)

FixedCodes == {0, 1, 3, 5}

\* C17: each label encodes to its fixed code and decodes back to itself; each
\* of the codes 0, 1, 3, 5 decodes to a label that encodes back to it; every
\* other integer decodes to "none", and decoding never raises.
C17_PriorityBijection ==
    /\ (op = "priority_to_api" /\ args.priority \in Labels) =>
          /\ result = Ret(FixedCode[args.priority])
          /\ priority_from_api(result.val) = args.priority
    /\ op = "priority_from_api" =>
          /\ ~Raised(result)
          /\ IF args.priority \in FixedCodes
             THEN /\ result.val \in Labels
                  /\ FixedCode[result.val] = args.priority
                  /\ priority_to_api(result.val) = Ret(args.priority)
             ELSE result.val = L_none

C17_Witness ==
    /\ op = "priority_from_api"
    /\ args.priority = 2
    /\ result = Ret(L_none)

\* C18: every case and whitespace spelling of a label encodes to that label's
\* code, and every string that spells no label raises the invalid-priority
\* error instead of encoding to some code.
C18_EncodePriorityStrict ==
    op = "priority_to_api" =>
        /\ \A l \in Labels :
              args.priority \in Spellings(l) => result = Ret(FixedCode[l])
        /\ args.priority \in InvalidPriorities => result = Raise("ValueError")

C18_Witness ==
    /\ op = "priority_to_api"
    /\ args.priority = <<"u", "r", "g", "e", "n", "t">>
    /\ Raised(result)

---------------------------------------------------------------------------
(* Properties: dates *)

\* the fields of a date string, and of an encoded or decoded one
Parsed(date_str) == fromisoformat(date_str).val

HasTime(date_str) == Len(date_str) >= 2

HasOffset(date_str) == Len(date_str) = 3

\* C19: date_to_api raises the invalid-date error for an unparseable input;
\* otherwise all-day is true if and only if the input has no time component,
\* and then the encoding is midnight at +0000; an input with a time and no
\* offset is encoded at +0000, one with an offset keeps its offset, both with
\* their wall-clock hour and minute and with all-day false.
C19_EncodeDate ==
    op = "date_to_api" =>
        LET d == args.date_str
        IN  IF d \notin AcceptedDates THEN result = Raise("ValueError")
            ELSE /\ ~Raised(result)
                 /\ result.val[2] <=> ~HasTime(d)
                 /\ Parsed(result.val[1]).day = Parsed(d).day
                 /\ Parsed(result.val[1]).min = (IF HasTime(d) THEN Parsed(d).min ELSE 0)
                 /\ result.val[1][3] =
                       (IF HasOffset(d) THEN FormatOffsetBasic(Parsed(d).tz)[1]
                        ELSE "+0000")

\* what date_from_api makes of the encoding of the date string
DecodedBack == Parsed(date_from_api(result.val[1]).val)

\* C20 as stated: decoding the encoding of any accepted input gives the same
\* calendar date, the same wall-clock time and the same offset (+00:00 when
\* the input had none), and encoding the decoding of a provider date gives
\* the provider's string back.
C20_DateRoundTrip_Original ==
    /\ (op = "date_to_api" /\ ~Raised(result)) =>
          /\ DecodedBack.day = Parsed(args.date_str).day
          /\ DecodedBack.min = Parsed(args.date_str).min
          /\ DecodedBack.ms = Parsed(args.date_str).ms
          /\ DecodedBack.tz = (IF HasOffset(args.date_str)
                               THEN Parsed(args.date_str).tz ELSE <<0>>)
    /\ (op = "date_from_api" /\ args.date_str \in ProviderDates) =>
          date_to_api(result.val) = Ret(<<args.date_str, FALSE>>)

\* C20 as amended: the same, the wall-clock time being kept to the second: a
\* fraction of a second in the input is dropped by the encoding.
C20_DateRoundTrip ==
    /\ (op = "date_to_api" /\ ~Raised(result)) =>
          /\ DecodedBack.day = Parsed(args.date_str).day
          /\ DecodedBack.min = Parsed(args.date_str).min
          /\ DecodedBack.ms = 0
          /\ DecodedBack.tz = (IF HasOffset(args.date_str)
                               THEN Parsed(args.date_str).tz ELSE <<0>>)
          /\ Len(date_from_api(result.val[1]).val[3]) = 6
    /\ (op = "date_from_api" /\ args.date_str \in ProviderDates) =>
          date_to_api(result.val) = Ret(<<args.date_str, FALSE>>)

C20_Witness ==
    /\ op = "date_to_api"
    /\ args.date_str = <<"2025-03-15", "T14:00:00.500", "+05:00">>
    /\ result = Ret(<<<<"2025-03-15", "T14:00:00", "+0500">>, FALSE>>)
    /\ date_from_api(result.val[1]) = Ret(<<"2025-03-15", "T14:00:00", "+05:00">>)

---------------------------------------------------------------------------
(* Properties: normalize_task *)

TaskFields ==
    {"id", "projectId", "title", "content", "priority", "isCompleted",
     "isAllDay", "dueDate", "startDate", "subtasks"}

\* key k of the provider task is missing
Missing(task, k) == k \notin DOMAIN task

\* key k of the provider task is missing or holds None
MissingOrAbsent(task, k) == Missing(task, k) \/ task[k] = None

\* key k of the provider task is missing, holds None or is empty
MissingAbsentOrEmpty(task, k) == MissingOrAbsent(task, k) \/ task[k] = <<>>

\* C21: every task normalize_task produces has all ten agent-facing fields;
\* subtasks is the empty sequence when the provider's items are missing,
\* absent or empty; a missing title or content becomes "", a missing priority
\* "none", a missing or absent projectId "", a missing status isCompleted
\* false, and a missing, absent or empty dueDate or startDate decodes to
\* absent, each independently of the other.
C21_NormalizeDefaults ==
    (op = "normalize_task" /\ ~Raised(result)) =>
        LET task == args.task
            n == result.val
        IN  /\ DOMAIN n = TaskFields
            /\ MissingAbsentOrEmpty(task, "items") => n.subtasks = <<>>
            /\ Missing(task, "title") => n.title = <<>>
            /\ Missing(task, "content") => n.content = <<>>
            /\ Missing(task, "priority") => n.priority = L_none
            /\ MissingOrAbsent(task, "projectId") => n.projectId = <<>>
            /\ Missing(task, "status") => n.isCompleted = FALSE
            /\ MissingAbsentOrEmpty(task, "dueDate") => n.dueDate = None
            /\ MissingAbsentOrEmpty(task, "startDate") => n.startDate = None

\* the provider dict d carries a nonzero status
NonzeroStatus(d) == "status" \in DOMAIN d /\ d.status # 0

\* C22: decoding a task or a subtask gives isCompleted false exactly when the
\* provider status is 0 or missing and true for every nonzero status; encoding
\* a subtask gives status 1 when isCompleted is true and status 0 otherwise.
C22_CompletionCollapsed ==
    /\ (op = "normalize_task" /\ ~Raised(result)) =>
          /\ result.val.isCompleted <=> NonzeroStatus(args.task)
          /\ \A i \in DOMAIN result.val.subtasks :
                result.val.subtasks[i].isCompleted <=> NonzeroStatus(args.task.items[i])
    /\ op = "subtask_from_api" =>
          (result.val.isCompleted <=> NonzeroStatus(args.item))
    /\ (op = "subtask_to_api" /\ ~Raised(result)) =>
          result.val.status =
              (IF "isCompleted" \in DOMAIN args.subtask /\ args.subtask.isCompleted
               THEN 1 ELSE 0)

C22_Witness ==
    /\ op = "normalize_task"
    /\ "status" \in DOMAIN args.task
    /\ args.task.status = 2
    /\ "items" \in DOMAIN args.task
    /\ args.task.items = <<[title |-> <<"M">>], [id |-> <<"s9">>, status |-> 2]>>
    /\ result.val.isCompleted
    /\ ~result.val.subtasks[1].isCompleted
    /\ result.val.subtasks[2].isCompleted

---------------------------------------------------------------------------
(* Properties: the client's session *)

\* the client exists and its scope has not been entered, or has been exited
OutsideScope == pc \in {"constructed", "exited", "exited_error"}

\* the scope has been entered and not yet exited
InsideScope == pc \in {"entered", "closing", "closing_error"}

BearerHeader == [Authorization |-> <<"Bearer ", env.TICKTICK_API_TOKEN>>]

\* C23: before the scope is entered and after it is exited every call of a
\* client method fails with the not-initialized error and issues no HTTP
\* request; between enter and exit the session exists and carries the
\* bearer-token header, as does every request issued.
C23_UsableOnlyInScope ==
    /\ [][(ClientCall /\ OutsideScope) =>
             (result' = NotInitialized /\ calls' = calls)]_vars
    /\ [](InsideScope =>
             /\ _client # <<>>
             /\ sessions[_client[1]].headers = BearerHeader)
    /\ [](\A i \in DOMAIN calls : calls[i].headers = BearerHeader)

C23_Witness ==
    /\ pc = "exited"
    /\ op = "update_task"
    /\ result = NotInitialized
    /\ Len(calls) = 1
    /\ calls[1].verb = "GET"
    /\ _client = <<>>

\* the lifespan scope has been left
Exited == pc \in {"exited", "exited_error"}

\* no session is open and the client holds none
Released == _client = <<>> /\ \A i \in DOMAIN sessions : sessions[i].is_closed

\* C24: once the lifespan scope is left, by shutdown or by an error raised
\* inside it, the session is closed at once, the release runs to its end, and
\* wherever the lifespan has ended the session is closed and the client's
\* reference cleared; when startup fails for lack of the API token no
\* session is ever opened.
C24_SessionReleased ==
    /\ [](Exited => Released)
    /\ []("TICKTICK_API_TOKEN" \notin DOMAIN env => sessions = <<>>)
    /\ [][(pc = "entered" /\ pc' # "entered") =>
             \A i \in DOMAIN sessions' : sessions'[i].is_closed]_vars
    /\ (pc \in {"closing", "closing_error"}) ~> (Exited /\ Released)

C24_Witness ==
    /\ pc = "exited_error"
    /\ Len(sessions) = 1
    /\ sessions[1].is_closed
    /\ _client = <<>>
    /\ Len(calls) = 1

---------------------------------------------------------------------------
(* Properties: the priority filter of search_tasks *)

\* the label the priority filter asks for
FilterLabel == Strip(Lower(args.priority))

InvalidFilter == op = "search_tasks" /\ Active("priority") /\ FilterLabel \notin Labels

\* C25: with a priority filter that is none of the four labels once
\* lower-cased and trimmed, search_tasks fetches no project detail and
\* returns an error payload; a success list under a priority filter means
\* the label is valid, every task returned has that decoded priority, and
\* every decoded task of a fetched project that has it and passes the other
\* filters is returned.
C25_PriorityFilterValidated ==
    /\ InvalidFilter =>
          /\ FetchCalls = <<>>
          /\ pc = "done" => result.kind = "error"
    /\ (SearchDone /\ Active("priority")) =>
          /\ FilterLabel \in Labels
          /\ \A i \in DOMAIN result.json : result.json[i].priority = FilterLabel
          /\ \A i \in DOMAIN SucceededTasks :
                LET t == SucceededTasks[i]
                IN  (t.priority = FilterLabel /\ QueryPasses(t) /\ DuePasses(t))
                        => t \in Range(result.json)

C25_Witness ==
    /\ InvalidFilter
    /\ pc = "done"
    /\ Len(calls) = 1
    /\ calls[1].method = "list_projects"
    /\ ~Failed(resps[1])
    /\ result = error_json(<<"Invalid priority filter ", args.priority,
                             ". Must be one of: none, low, medium, high">>)

---------------------------------------------------------------------------
(* Properties: the provider calls of an invocation *)

\* the calls of the invocation to one client method
CallsTo(method) == SelectSeq(calls, LAMBDA c : c.method = method)

\* C26: update_task first fetches the task by (project_id, task_id); an
\* update is sent at most once, as the second call, for the same task id,
\* and only when the fetch has answered without error; when the fetch fails
\* the operation returns an error and no update is sent.
C26_FetchMergeSend ==
    op = "update_task" =>
        /\ calls # <<>>
        /\ calls[1] = Call("get_task", <<args.project_id, args.task_id>>, None)
        /\ Len(CallsTo("update_task")) <= 1
        /\ Len(calls) <= 2
        /\ Len(calls) = 2 =>
              /\ calls[2].method = "update_task"
              /\ calls[2].target = <<args.task_id>>
              /\ resps # <<>>
              /\ ~Failed(resps[1])
        /\ (resps # <<>> /\ Failed(resps[1])) =>
              /\ pc = "done"
              /\ result.kind = "error"
              /\ CallsTo("update_task") = <<>>

C26_Witness ==
    /\ op = "update_task"
    /\ pc = "done"
    /\ Len(calls) = 2
    /\ Len(resps) = 2
    /\ calls[1].method = "get_task"
    /\ calls[2].method = "update_task"
    /\ ~Failed(resps[1])
    /\ result.kind = "ok"

\* C27: the calls of an invocation are awaited one at a time; a call that
\* failed is never followed by a call to the same endpoint for the same
\* target, and in an operation other than search_tasks by no call at all;
\* search_tasks fetches the entries of its project list in order, one fetch
\* per entry, all of them once it has returned a list.
C27_SingleAttempt ==
    /\ Len(resps) <= Len(calls)
    /\ Len(calls) <= Len(resps) + 1
    /\ \A i \in DOMAIN resps :
          Failed(resps[i]) =>
              /\ \A j \in (i + 1)..Len(calls) :
                    ~(calls[j].method = calls[i].method
                        /\ calls[j].target = calls[i].target)
              /\ op # "search_tasks" => Len(calls) = i
    /\ op = "search_tasks" =>
          /\ Len(CallsTo("list_projects")) <= 1
          /\ Len(FetchCalls) <= Len(project_ids)
          /\ FetchTargets = SubSeq(project_ids, 1, Len(FetchCalls))
          /\ SearchDone => Len(FetchCalls) = Len(project_ids)

C27_Witness ==
    /\ SearchDone
    /\ Len(project_ids) = 3
    /\ FetchTargets = project_ids
    /\ Failed(FetchResps[1])
    /\ Failed(FetchResps[2])
    /\ Failed(FetchResps[3])
    /\ Len(calls) = 4

---------------------------------------------------------------------------
(* Properties: validation and writes *)

\* the argument is supplied and is not a valid value
BadPriority == "priority" \in DOMAIN args /\ Strip(Lower(args.priority)) \notin Labels

BadDateArg(k) == k \in DOMAIN args /\ args[k] \notin AcceptedDates

InvalidArgs == BadPriority \/ BadDateArg("due_date") \/ BadDateArg("start_date")

\* C28: create_task with an invalid priority, due_date or start_date sends no
\* call and returns an error; update_task with one sends nothing but the
\* fetch, never an update, and returns an error.
C28_InvalidNeverWrites ==
    /\ (op = "create_task" /\ InvalidArgs) =>
          /\ calls = <<>>
          /\ pc = "done" => result.kind = "error"
    /\ (op = "update_task" /\ InvalidArgs) =>
          /\ CallsTo("update_task") = <<>>
          /\ \A i \in DOMAIN calls : calls[i].method = "get_task"
          /\ pc = "done" => result.kind = "error"

\* the title was merged locally, the start date was refused, nothing was sent
C28_Witness ==
    /\ op = "update_task"
    /\ pc = "done"
    /\ "title" \in DOMAIN args
    /\ ~BadPriority
    /\ ~BadDateArg("due_date")
    /\ BadDateArg("start_date")
    /\ Len(calls) = 1
    /\ ~Failed(resps[1])
    /\ result = error_json(<<"Invalid start_date format: ", args.start_date>>)

---------------------------------------------------------------------------
(* Properties: concurrent updates *)

\* the field an update of ConcurrentUpdateArgs supplies
ChangedField(a) == IF "title" \in DOMAIN a THEN "title" ELSE "content"

\* invocation j's update was sent and accepted
SentOk(j) ==
    /\ flights[j].op = "update_task"
    /\ flights[j].pc = "done"
    /\ flights[j].result.kind = "ok"

\* invocation i fetched before invocation j's change reached the provider,
\* and j's change is in the provider's copy now
FetchedBefore(i, j) ==
    LET fj == ChangedField(flights[j].args)
    IN  /\ flights[i].payload[fj] # flights[j].args[fj]
        /\ store[fj] = flights[j].args[fj]

\* C29: when two updates of disjoint fields have both fetched before either
\* sent, the later send leaves the provider's task with the later sender's
\* change only: the earlier sender's field is back at the value the later
\* sender had fetched.
C29_LostUpdate ==
    [][\A i, j \in Flights :
          (/\ i # j
           /\ flights[i].pc = "update_send"
           /\ SentOk(j)
           /\ ChangedField(flights[i].args) # ChangedField(flights[j].args)
           /\ FetchedBefore(i, j)
           /\ flights'[i].pc = "done"
           /\ flights'[i].result.kind = "ok")
          => LET fi == ChangedField(flights[i].args)
                 fj == ChangedField(flights[j].args)
             IN  /\ store'[fi] = flights[i].args[fi]
                 /\ store'[fj] = flights[i].payload[fj]
                 /\ store'[fj] # flights[j].args[fj]]_vars

\* both updates were accepted; the title one invocation set is gone
C29_Witness ==
    \E i, j \in Flights :
        /\ i # j
        /\ SentOk(i)
        /\ SentOk(j)
        /\ ChangedField(flights[i].args) = "content"
        /\ ChangedField(flights[j].args) = "title"
        /\ flights[j].result.json.title = <<"N", "e", "w">>
        /\ flights[i].payload.title = RAW_TASK.title
        /\ store.content = <<"c">>
        /\ store.title = RAW_TASK.title

---------------------------------------------------------------------------
(* Properties: subtask encoding *)

\* C30: the encoding of a subtask has exactly the keys title and status,
\* whatever other keys the subtask has; decoded again it has the subtask's
\* title and isCompleted (false when the subtask had none) and an absent id,
\* also when the subtask came with a provider id.
C30_SubtaskIdDropped ==
    (op = "subtask_to_api" /\ ~Raised(result)) =>
        LET s == args.subtask
            back == subtask_from_api(result.val)
        IN  /\ DOMAIN result.val = {"title", "status"}
            /\ back.title = s.title
            /\ back.isCompleted = ("isCompleted" \in DOMAIN s /\ s.isCompleted)
            /\ back.id = None

C30_Witness ==
    /\ op = "subtask_to_api"
    /\ args.subtask = [id |-> <<"s1">>, title |-> <<"M">>, isCompleted |-> TRUE]
    /\ result = Ret([title |-> <<"M">>, status |-> 1])
    /\ subtask_from_api(result.val) =
          [id |-> None, title |-> <<"M">>, isCompleted |-> TRUE]

============================================================================
